---------------------------- MODULE Spec2Model ----------------------------
(***************************************************************************)
(* wgsl-plus: the C-style preprocessor (macro expander, expression         *)
(* evaluator, conditional-compilation state machine).                      *)
(*                                                                         *)
(* A JavaScript string is a sequence of one-character strings, so that     *)
(* every regular expression of the source is modelled by what it matches.  *)
(* Positions are 1-based (JavaScript's are 0-based).                       *)
(***************************************************************************)
EXTENDS Integers, Sequences, FiniteSets, TLC

(***************************************************************************)
(* Character classes of the regular expressions                            *)
(***************************************************************************)
Upper == {"A","B","C","D","E","F","G","H","I","J","K","L","M",
          "N","O","P","Q","R","S","T","U","V","W","X","Y","Z"}

Lower == {"a","b","c","d","e","f","g","h","i","j","k","l","m",
          "n","o","p","q","r","s","t","u","v","w","x","y","z"}

Digit == {"0","1","2","3","4","5","6","7","8","9"}

\* \w  (also [a-zA-Z0-9_])
WordChar == Upper \cup Lower \cup Digit \cup {"_"}

\* [a-zA-Z_]
IdentStart == Upper \cup Lower \cup {"_"}

\* \s (the white space that can occur inside one line)
Space == {" ", "\t"}

(***************************************************************************)
(* Loops                                                                   *)
(***************************************************************************)
\* st after the loop "for k = lo .. hi: st = Step(st, k)".  The range is
\* halved and the state after the first half is bound as a value, so that a
\* loop of n turns is evaluated at depth log n.
RECURSIVE Iterate(_, _, _, _)
Iterate(Step(_, _), st, lo, hi) ==
    IF lo > hi THEN st
    ELSE IF lo = hi THEN Step(st, lo)
    ELSE CHOOSE r \in { Iterate(Step, half, ((lo + hi) \div 2) + 1, hi) :
                          half \in {Iterate(Step, st, lo, (lo + hi) \div 2)} } : TRUE

Min(S) == CHOOSE k \in S : \A j \in S : k <= j

Max(S) == CHOOSE k \in S : \A j \in S : k >= j

(***************************************************************************)
(* String primitives                                                       *)
(***************************************************************************)
\* s.substring(i-1, i-1+n) as text at position i
MatchAt(s, pat, i) ==
    /\ i >= 1
    /\ i + Len(pat) - 1 <= Len(s)
    /\ SubSeq(s, i, i + Len(pat) - 1) = pat

\* s.indexOf(pat, from): the first position >= from where pat occurs, 0 if none
IndexFrom(s, pat, from) ==
    LET hits == {k \in from..(Len(s) - Len(pat) + 1) : MatchAt(s, pat, k)}
    IN IF hits = {} THEN 0 ELSE Min(hits)

IndexOf(s, pat) == IndexFrom(s, pat, 1)

StartsWith(s, pat) == MatchAt(s, pat, 1)

\* the first position >= i that holds no white space (Len(s)+1 if none)
SkipWs(s, i) ==
    IF i > Len(s) THEN i
    ELSE Min({p \in i..(Len(s) + 1) : p = Len(s) + 1 \/ s[p] \notin Space})

\* the last position <= i that holds no white space (0 if none)
SkipWsBack(s, i) ==
    IF i < 1 THEN i
    ELSE Max({p \in 0..i : p = 0 \/ s[p] \notin Space})

\* String.prototype.trim
Trim(s) == SubSeq(s, SkipWs(s, 1), SkipWsBack(s, Len(s)))

IsWordAt(s, k) == k >= 1 /\ k <= Len(s) /\ s[k] \in WordChar

\* the end of the run of [a-zA-Z0-9_] that starts at i (i-1 if none)
WordEnd(s, i) ==
    Min({p \in i..(Len(s) + 1) : ~IsWordAt(s, p)}) - 1

\* \b just before position p (p in 1..Len(s)+1)
Boundary(s, p) == IsWordAt(s, p - 1) # IsWordAt(s, p)

\* /\bname\b/ matches at position i
WordAt(s, name, i) ==
    /\ MatchAt(s, name, i)
    /\ Boundary(s, i)
    /\ Boundary(s, i + Len(name))

\* /^[a-zA-Z_][a-zA-Z0-9_]*$/
IsIdentifier(s) ==
    /\ Len(s) >= 1
    /\ s[1] \in IdentStart
    /\ \A k \in 1..Len(s) : s[k] \in WordChar

\* the decimal digits of a natural number (template literal ${n})
DigitChars == <<"0","1","2","3","4","5","6","7","8","9">>

RECURSIVE NatToStr(_)
NatToStr(n) ==
    IF n < 10 THEN <<DigitChars[n + 1]>>
    ELSE NatToStr(n \div 10) \o <<DigitChars[(n % 10) + 1]>>

\* The replacement text of String.prototype.replace(pattern, <string>) for a
\* match of length len at position pos of s: in a replacement STRING "$$"
\* inserts "$", "$&" the match, "$`" the text before the match and "$'" the
\* text after it; any other "$" stands for itself (the patterns of the source
\* have no capture groups).  st = [next, out]
ReplacementStep(st, k, repl, s, pos, len) ==
    IF k < st.next THEN st
    ELSE IF repl[k] = "$" /\ k < Len(repl) /\ repl[k + 1] = "$"
        THEN [next |-> k + 2, out |-> Append(st.out, "$")]
    ELSE IF repl[k] = "$" /\ k < Len(repl) /\ repl[k + 1] = "&"
        THEN [next |-> k + 2, out |-> st.out \o SubSeq(s, pos, pos + len - 1)]
    ELSE IF repl[k] = "$" /\ k < Len(repl) /\ repl[k + 1] = "`"
        THEN [next |-> k + 2, out |-> st.out \o SubSeq(s, 1, pos - 1)]
    ELSE IF repl[k] = "$" /\ k < Len(repl) /\ repl[k + 1] = "'"
        THEN [next |-> k + 2, out |-> st.out \o SubSeq(s, pos + len, Len(s))]
    ELSE [next |-> k + 1, out |-> Append(st.out, repl[k])]

ReplacementText(repl, s, pos, len) ==
    Iterate(LAMBDA st, k : ReplacementStep(st, k, repl, s, pos, len),
            [next |-> 1, out |-> <<>>], 1, Len(repl)).out

\* s.replace(pat, repl) with a string pattern: the first occurrence only
ReplaceFirstStr(s, pat, repl) ==
    LET i == IndexOf(s, pat)
    IN IF i = 0 THEN s
       ELSE SubSeq(s, 1, i - 1)
            \o ReplacementText(repl, s, i, Len(pat))
            \o SubSeq(s, i + Len(pat), Len(s))

(***************************************************************************)
(* expandMacros (macro-expander.ts)                                        *)
(*                                                                         *)
(* A macro table is a JavaScript Map: a sequence of entries in insertion   *)
(* order.  An entry is [name, value, fn, params]; fn says that the macro   *)
(* has a params array (function-like).                                     *)
(***************************************************************************)
MAX_ITERATIONS == 100

NoError == [kind |-> "none", name |-> <<>>, expects |-> 0, got |-> 0]

ArityError(name, k, j) == [kind |-> "arity", name |-> name, expects |-> k, got |-> j]

ObjectMacro(name, value) ==
    [name |-> name, value |-> value, fn |-> FALSE, params |-> <<>>]

FunctionMacro(name, params, value) ==
    [name |-> name, value |-> value, fn |-> TRUE, params |-> params]

\* `###STRING_LITERAL_${n}###`
Placeholder(n) ==
    <<"#","#","#","S","T","R","I","N","G","_","L","I","T","E","R","A","L","_">>
    \o NatToStr(n) \o <<"#","#","#">>

\* One character of the scan that moves every string literal out of the line.
\* st = [inString, stringChar, escaped, cur, prot, lits]
ProtectStep(st, c) ==
    LET put == IF st.inString THEN [st EXCEPT !.cur = Append(@, c)]
               ELSE [st EXCEPT !.prot = Append(@, c)]
    IN IF st.escaped THEN [put EXCEPT !.escaped = FALSE]
       ELSE IF c = "\\" THEN [put EXCEPT !.escaped = TRUE]
       ELSE IF c \in {"\"", "'"} /\ (~st.inString \/ c = st.stringChar)
       THEN IF st.inString
            THEN [st EXCEPT !.lits = Append(@, Append(st.cur, c)),
                            !.prot = @ \o Placeholder(Len(st.lits)),
                            !.cur = <<>>,
                            !.inString = FALSE]
            ELSE [st EXCEPT !.inString = TRUE, !.stringChar = c, !.cur = <<c>>]
       ELSE put

\* [prot |-> protectedLine, lits |-> stringLiterals]
ProtectStrings(line) ==
    LET AtEnd(st) ==
            IF st.inString
            THEN [prot |-> st.prot \o Placeholder(Len(st.lits)),
                  lits |-> Append(st.lits, st.cur)]
            ELSE [prot |-> st.prot, lits |-> st.lits]
    IN AtEnd(Iterate(LAMBDA t, i : ProtectStep(t, line[i]),
                     [inString |-> FALSE, stringChar |-> "", escaped |-> FALSE,
                      cur |-> <<>>, prot |-> <<>>, lits |-> <<>>],
                     1, Len(line)))

\* result.replace(`###STRING_LITERAL_${i}###`, stringLiterals[i]) for i = 0, 1, ...
RestoreStrings(result, lits) ==
    Iterate(LAMBDA r, k : ReplaceFirstStr(r, Placeholder(k - 1), lits[k]),
            result, 1, Len(lits))

\* sort((a, b) => b[0].length - a[0].length): stable, longer names first
RECURSIVE SortFrom(_, _)
SortFrom(defines, len) ==
    IF len < 0 THEN <<>>
    ELSE SelectSeq(defines, LAMBDA m : Len(m.name) = len)
         \o SortFrom(defines, len - 1)

MaxNameLen(defines) ==
    IF defines = <<>> THEN 0
    ELSE Max({Len(defines[k].name) : k \in 1..Len(defines)})

SortedMacros(defines) == SortFrom(defines, MaxNameLen(defines))

\* /^\s*NAME\s+is\s+defined\s*(\/\/.*)?$/  (it subsumes the pattern without
\* the trailing comment)
IsDefinedLine(result, name) ==
    LET p1 == SkipWs(result, 1)
        p2 == p1 + Len(name)
        p3 == SkipWs(result, p2)
        p4 == p3 + 2
        p5 == SkipWs(result, p4)
        p6 == p5 + 7
        p7 == SkipWs(result, p6)
    IN /\ MatchAt(result, name, p1)
       /\ p3 > p2
       /\ MatchAt(result, <<"i","s">>, p3)
       /\ p5 > p4
       /\ MatchAt(result, <<"d","e","f","i","n","e","d">>, p5)
       /\ (p7 = Len(result) + 1 \/ MatchAt(result, <<"/","/">>, p7))

\* A global replace, as a scan over the positions of s.
\* st = [next, out, hit]: next is the position after the last match (the
\* regular expression's lastIndex), hit says that the replacer was called.
ReplaceScan(s, MatchLen(_), Subst(_, _)) ==
    LET At(st, i, n) ==
            IF n > 0
            THEN [next |-> i + n, out |-> st.out \o Subst(i, n), hit |-> TRUE]
            ELSE [st EXCEPT !.next = i + 1, !.out = Append(@, s[i])]
    IN Iterate(LAMBDA st, i : IF i < st.next THEN st ELSE At(st, i, MatchLen(i)),
               [next |-> 1, out |-> <<>>, hit |-> FALSE], 1, Len(s))

\* result.replace(/\bNAME\b/g, () => { changed = true; return value }):
\* [out, hit]
ReplaceWord(s, name, value) ==
    ReplaceScan(s, LAMBDA i : IF WordAt(s, name, i) THEN Len(name) ELSE 0,
                LAMBDA i, n : value)

\* /(^|[^A-Za-z0-9_]|[0-9])(N)(?![A-Za-z0-9_])/ at position i: the length of
\* the prefix group (0 or 1), or -1 when there is no match at i
SingleAt(s, name, i) ==
    IF i = 1 /\ MatchAt(s, name, 1) /\ ~IsWordAt(s, 2) THEN 0
    ELSE IF /\ i <= Len(s)
            /\ (s[i] \notin WordChar \/ s[i] \in Digit)
            /\ MatchAt(s, name, i + 1)
            /\ ~IsWordAt(s, i + 2)
         THEN 1
         ELSE -1

\* result.replace(regex, (match, prefix, target) => { changed = true;
\* return prefix + value }): [out, hit]
ReplaceSingle(s, name, value) ==
    ReplaceScan(s, LAMBDA i : SingleAt(s, name, i) + 1,
                LAMBDA i, n : SubSeq(s, i, i + n - 2) \o value)

\* /\bNAME\s*\(/g .exec from lastIndex: [start, open], start = 0 if no match
CallAt(s, name, i) ==
    /\ MatchAt(s, name, i)
    /\ Boundary(s, i)
    /\ SkipWs(s, i + Len(name)) <= Len(s)
    /\ s[SkipWs(s, i + Len(name))] = "("

FindCall(s, name, from) ==
    LET hits == {i \in from..Len(s) : CallAt(s, name, i)}
    IN IF hits = {} THEN [start |-> 0, open |-> 0]
       ELSE [start |-> Min(hits), open |-> SkipWs(s, Min(hits) + Len(name))]

\* One character of the argument scan of a function-like macro invocation.
\* st = [depth, cur, args, next]; the loop runs while i < result.length and
\* parenDepth > 0.
ArgStep(st, c, nparams) ==
    IF st.depth = 0 THEN st
    ELSE IF c = "("
        THEN [st EXCEPT !.depth = @ + 1, !.cur = Append(@, c), !.next = @ + 1]
    ELSE IF c = ")"
        THEN IF st.depth = 1
             THEN [st EXCEPT !.depth = 0,
                             !.args = IF Trim(st.cur) # <<>> \/ Len(st.args) > 0
                                         \/ nparams = 1
                                      THEN Append(@, Trim(st.cur)) ELSE @,
                             !.next = @ + 1]
             ELSE [st EXCEPT !.depth = @ - 1, !.cur = Append(@, c), !.next = @ + 1]
    ELSE IF c = "," /\ st.depth = 1
        THEN [st EXCEPT !.args = Append(@, Trim(st.cur)), !.cur = <<>>, !.next = @ + 1]
    ELSE [st EXCEPT !.cur = Append(@, c), !.next = @ + 1]

\* the arguments of the invocation whose "(" is at position open: [args, next]
ParseArgs(s, open, nparams) ==
    Iterate(LAMBDA st, i : ArgStep(st, s[i], nparams),
            [depth |-> 1, cur |-> <<>>, args |-> <<>>, next |-> open + 1],
            open + 1, Len(s))

\* expansion.replace(/\bparam\b/g, arg): arg is a replacement string
ReplaceWordStr(s, name, repl) ==
    ReplaceScan(s, LAMBDA i : IF WordAt(s, name, i) THEN Len(name) ELSE 0,
                LAMBDA i, n : ReplacementText(repl, s, i, n)).out

\* the argument substitution loop: one parameter after the other
SubstituteParams(expansion, params, args) ==
    Iterate(LAMBDA e, j : ReplaceWordStr(e, params[j], args[j]),
            expansion, 1, Len(params))

\* the arity test of an invocation
ArityOk(args, params) == Len(args) = Len(params)

\* One turn of the exec loop over the invocations of a function-like macro.
\* st = [from, lastIndex, newResult, any, done, err]
CallStep(st, result, m) ==
    LET Invoke(start, a) ==
            IF ~ArityOk(a.args, m.params)
            THEN [st EXCEPT !.done = TRUE,
                            !.err = ArityError(m.name, Len(m.params), Len(a.args))]
            ELSE [st EXCEPT !.from = a.next,
                            !.lastIndex = a.next,
                            !.newResult = @ \o SubSeq(result, st.lastIndex, start - 1)
                                            \o SubstituteParams(m.value, m.params, a.args),
                            !.any = TRUE]
        Found(hit) ==
            IF hit.start = 0 THEN [st EXCEPT !.done = TRUE]
            ELSE Invoke(hit.start, ParseArgs(result, hit.open, Len(m.params)))
    IN IF st.done THEN st ELSE Found(FindCall(result, m.name, st.from))

\* the exec loop of one function-like macro over result: [res, any, err]
\* (every turn consumes at least one character, so Len(result) + 1 turns end it)
FunctionScan(result, m) ==
    LET AtEnd(st) ==
            [res |-> IF st.any
                     THEN st.newResult \o SubSeq(result, st.lastIndex, Len(result))
                     ELSE result,
             any |-> st.any, err |-> st.err]
    IN AtEnd(Iterate(LAMBDA t, k : CallStep(t, result, m),
                     [from |-> 1, lastIndex |-> 1, newResult |-> <<>>,
                      any |-> FALSE, done |-> FALSE, err |-> NoError],
                     1, Len(result) + 1))

\* One pass of the for loop over sortedMacros, from entry k:
\* [res, changed, err]
RECURSIVE MacroPass(_, _, _, _)
MacroPass(result, sorted, k, changed) ==
    LET m == sorted[k]
        \* what follows the replacement r = [out, hit, err, stop] of this
        \* entry; stop says that the for loop is left (break)
        After(r) ==
            IF r.err.kind # "none"
                THEN [res |-> result, changed |-> changed, err |-> r.err]
            ELSE IF r.stop
                THEN [res |-> r.out, changed |-> TRUE, err |-> NoError]
            ELSE MacroPass(r.out, sorted, k + 1, changed \/ r.hit)
        Skipped == [out |-> result, hit |-> FALSE, err |-> NoError, stop |-> FALSE]
        Single(r) == [out |-> r.out, hit |-> r.hit, err |-> NoError, stop |-> FALSE]
        Word(r) == [out |-> r.out, hit |-> r.hit, err |-> NoError,
                    stop |-> r.out # result]
        Function(f) == [out |-> IF f.any THEN f.res ELSE result, hit |-> FALSE,
                        err |-> f.err, stop |-> f.any]
    IN IF k > Len(sorted) THEN [res |-> result, changed |-> changed, err |-> NoError]
       ELSE IF m.fn THEN After(Function(FunctionScan(result, m)))
       ELSE IF IsDefinedLine(result, m.name) THEN After(Skipped)
       ELSE IF Len(m.name) = 1 /\ m.name[1] \in Upper \cup Lower
           THEN After(Single(ReplaceSingle(result, m.name, m.value)))
       ELSE After(Word(ReplaceWord(result, m.name, m.value)))

\* a faulty variant of the loop guard: while (changed)
LoopWithoutCap(changed, iterationCount) == changed

\* the loop guard: while (changed && iterationCount < MAX_ITERATIONS)
LoopContinues(changed, iterationCount) ==
    changed /\ iterationCount < MAX_ITERATIONS

\* One turn of the while loop on st = [res, changed, iters, err]; a state in
\* which the loop has ended (guard false, or the Error thrown) stays as it is.
LoopStep(st, sorted) ==
    LET After(pass) ==
            [res |-> pass.res, changed |-> pass.changed,
             iters |-> st.iters + 1, err |-> pass.err]
    IN IF st.err.kind # "none" \/ ~LoopContinues(st.changed, st.iters) THEN st
       ELSE After(MacroPass(st.res, sorted, 1, FALSE))

\* The while loop, run for at most n turns.  It is evaluated by halving, and
\* the state after the first half is bound as a value, so that the depth of
\* the evaluation stays logarithmic in n.
RECURSIVE RunLoop(_, _, _)
RunLoop(st, sorted, n) ==
    IF n = 0 THEN st
    ELSE IF n = 1 THEN LoopStep(st, sorted)
    ELSE CHOOSE r \in { RunLoop(half, sorted, n - (n \div 2)) :
                          half \in {RunLoop(st, sorted, n \div 2)} } : TRUE

\* The most turns of the while loop the model follows; a loop that would go on
\* after that many turns is reported as pending (not terminated).
PassFuel == 128

\* expandMacros(line, defines): [text, err, iters, warned, pending];
\* err.kind = "arity" is the thrown Error, and then there is no text.
ExpandMacros(line, defines) ==
    LET AtEnd(loop, lits) ==
            IF loop.err.kind # "none"
            THEN [text |-> <<>>, err |-> loop.err, iters |-> loop.iters,
                  warned |-> FALSE, pending |-> FALSE]
            ELSE [text |-> RestoreStrings(loop.res, lits),
                  err |-> NoError,
                  iters |-> loop.iters,
                  warned |-> loop.iters >= MAX_ITERATIONS,
                  pending |-> LoopContinues(loop.changed, loop.iters)]
        Expand(p) ==
            AtEnd(RunLoop([res |-> p.prot, changed |-> TRUE, iters |-> 0,
                           err |-> NoError],
                          SortedMacros(defines), PassFuel),
                  p.lits)
    IN Expand(ProtectStrings(line))

(***************************************************************************)
(* evaluateExpression (evaluator.ts)                                       *)
(***************************************************************************)
\* defines.has(name)
Has(defines, name) == \E k \in 1..Len(defines) : defines[k].name = name

\* defines.get(name) of a defined name
Get(defines, name) ==
    defines[CHOOSE k \in 1..Len(defines) : defines[k].name = name]

\* the identifier /[a-zA-Z_][a-zA-Z0-9_]*/ that starts at i: its length, 0 if
\* no identifier starts there
IdentLenAt(s, i) ==
    IF i >= 1 /\ i <= Len(s) /\ s[i] \in IdentStart THEN WordEnd(s, i) - i + 1 ELSE 0

\* /defined\s*\(\s*([a-zA-Z_][a-zA-Z0-9_]*)\s*\)/ at position i:
\* [len, name], len = 0 if there is no match at i
DefinedAt(s, i) ==
    LET p1 == SkipWs(s, i + 7)
        p2 == SkipWs(s, p1 + 1)
        n == IdentLenAt(s, p2)
        p3 == SkipWs(s, p2 + n)
    IN IF /\ MatchAt(s, <<"d","e","f","i","n","e","d">>, i)
          /\ MatchAt(s, <<"(">>, p1)
          /\ n > 0
          /\ MatchAt(s, <<")">>, p3)
       THEN [len |-> p3 - i + 1, name |-> SubSeq(s, p2, p2 + n - 1)]
       ELSE [len |-> 0, name |-> <<>>]

\* expr.replace(/defined\s*\(\s*NAME\s*\)/g, (_, name) => defines.has(name) ? "1" : "0")
ReplaceDefined(expr, defines) ==
    ReplaceScan(expr, LAMBDA i : DefinedAt(expr, i).len,
                LAMBDA i, n : IF Has(defines, DefinedAt(expr, i).name)
                              THEN <<"1">> ELSE <<"0">>).out

\* /\b([a-zA-Z_][a-zA-Z0-9_]*)\s*==\s*([a-zA-Z_][a-zA-Z0-9_]*)\b/ at position i:
\* [len, left, right], len = 0 if there is no match at i
EqualityAt(s, i) ==
    LET n1 == IdentLenAt(s, i)
        p1 == SkipWs(s, i + n1)
        p2 == SkipWs(s, p1 + 2)
        n2 == IdentLenAt(s, p2)
    IN IF /\ Boundary(s, i)
          /\ n1 > 0
          /\ MatchAt(s, <<"=","=">>, p1)
          /\ n2 > 0
       THEN [len |-> p2 + n2 - i,
             left |-> SubSeq(s, i, i + n1 - 1),
             right |-> SubSeq(s, p2, p2 + n2 - 1)]
       ELSE [len |-> 0, left |-> <<>>, right |-> <<>>]

\* the three cases in which a comparison of two names is rewritten to "1"
TokenEqual(left, right, defines) ==
    LET hasL == Has(defines, left)
        hasR == Has(defines, right)
    IN \/ hasL /\ ~Get(defines, left).fn /\ Get(defines, left).value = right /\ ~hasR
       \/ hasR /\ ~Get(defines, right).fn /\ Get(defines, right).value = left /\ ~hasL
       \/ /\ hasL /\ hasR
          /\ ~Get(defines, left).fn /\ ~Get(defines, right).fn
          /\ Get(defines, left).value = Get(defines, right).value

\* One turn of "while ((match = equalityRegex.exec(expr)) !== null)".
\* st = [expr, lastIndex, done]: exec searches the current text from lastIndex
\* and leaves lastIndex after the match; expr.replace(fullMatch, "1") rewrites
\* the first occurrence of the matched text.
EqualityStep(st, defines) ==
    LET Match(i, m) ==
            [expr |-> IF TokenEqual(m.left, m.right, defines)
                      THEN ReplaceFirstStr(st.expr, SubSeq(st.expr, i, i + m.len - 1),
                                           <<"1">>)
                      ELSE st.expr,
             lastIndex |-> i + m.len,
             done |-> FALSE]
        First(i) == Match(i, EqualityAt(st.expr, i))
        Exec(hits) == IF hits = {} THEN [st EXCEPT !.done = TRUE] ELSE First(Min(hits))
    IN IF st.done THEN st
       ELSE Exec({i \in st.lastIndex..Len(st.expr) : EqualityAt(st.expr, i).len > 0})

\* the equality loop (every turn moves lastIndex on, so Len(expr) + 1 turns end it)
RewriteEqualities(expr, defines) ==
    Iterate(LAMBDA st, k : EqualityStep(st, defines),
            [expr |-> expr, lastIndex |-> 1, done |-> FALSE],
            1, Len(expr) + 1).expr

\* the value an identifier is replaced by
IdentifierValue(identifier, defines) ==
    IF Has(defines, identifier) /\ ~Get(defines, identifier).fn
    THEN IF Get(defines, identifier).value # <<>>
         THEN Get(defines, identifier).value ELSE <<"0">>
    ELSE <<"0">>

\* expr.replace(/\b([a-zA-Z_][a-zA-Z0-9_]*)\b/g, (match, identifier) => ...)
ReplaceIdentifiers(expr, defines) ==
    ReplaceScan(expr,
                LAMBDA i : IF Boundary(expr, i) THEN IdentLenAt(expr, i) ELSE 0,
                LAMBDA i, n : IdentifierValue(SubSeq(expr, i, i + n - 1), defines)).out

\* expr.replace(/(\s*)(!=|==|&&|\|\||!)(\s*)/g, ...): the white space around an
\* operator is put back as it was, "!=" becomes "!==" and "==" becomes "===";
\* "&&", "||" and "!" are replaced by themselves.
ConvertOperators(expr) ==
    ReplaceScan(expr,
                LAMBDA i : IF MatchAt(expr, <<"!","=">>, i) \/ MatchAt(expr, <<"=","=">>, i)
                           THEN 2 ELSE 0,
                LAMBDA i, n : <<expr[i], "=", "=">>).out

\* the text that reaches the numeric test and eval
EvalText(expr, defines) ==
    ConvertOperators(
        ReplaceIdentifiers(
            RewriteEqualities(ReplaceDefined(expr, defines), defines), defines))

\* /^\s*\d+\s*$/
IsNumberText(s) ==
    LET t == Trim(s)
    IN /\ t # <<>>
       /\ \A k \in 1..Len(t) : t[k] \in Digit

\* parseInt(t, 10) !== 0 for a run of digits t
NonZeroDigits(t) == \E k \in 1..Len(t) : t[k] # "0"

(***************************************************************************)
(* eval(expr): JavaScript's evaluation of the text, for the expressions    *)
(* made of decimal integers, names, parentheses and the operators          *)
(* !  &&  ||  ===  !==  <  >  <=  >=.  The module is strict code, so the   *)
(* direct eval is strict too.  Any other character makes the outcome       *)
(* "unsupported": the model does not say what eval does with it.           *)
(***************************************************************************)
JsOperators ==
    << <<"=","=","=">>, <<"!","=","=">>, <<"&","&">>, <<"|","|">>,
       <<"<","=">>, <<">","=">>, <<"<">>, <<">">>, <<"!">>, <<"(">>, <<")">> >>

\* the first operator of JsOperators that occurs at position i (0 if none);
\* longer operators come first
OperatorAt(s, i) ==
    LET hits == {k \in 1..Len(JsOperators) : MatchAt(s, JsOperators[k], i)}
    IN IF hits = {} THEN 0 ELSE Min(hits)

DigitsEnd(s, i) ==
    Min({p \in i..(Len(s) + 1) : p = Len(s) + 1 \/ s[p] \notin Digit}) - 1

\* the number written by a run of digits
NumberValue(t) ==
    LET DigitValue(c) == CHOOSE d \in 0..9 : DigitChars[d + 1] = c
    IN Iterate(LAMBDA n, k : 10 * n + DigitValue(t[k]), 0, 1, Len(t))

\* letters that continue a numeric literal (exponent, radix prefix, BigInt
\* suffix, separator): such literals are outside the subset
NumberSuffix == {"e", "E", "x", "X", "o", "O", "b", "B", "n", "_"}

\* One position of the scan of the text into tokens.  A decimal literal
\* directly followed by a letter is a SyntaxError; a literal with a leading
\* zero depends on the strictness of the build and is outside the subset.
\* st = [next, toks, bad]; bad is "" or "syntax" or "unsupported"
TokenStep(st, s, i) ==
    IF i < st.next \/ st.bad # "" THEN st
    ELSE IF s[i] \in Space THEN [st EXCEPT !.next = i + 1]
    ELSE IF s[i] \in Digit
        THEN LET e == DigitsEnd(s, i)
             IN IF e > i /\ s[i] = "0"
                THEN [st EXCEPT !.bad = "unsupported"]
                ELSE IF e < Len(s) /\ s[e + 1] \in NumberSuffix
                THEN [st EXCEPT !.bad = "unsupported"]
                ELSE IF e < Len(s) /\ s[e + 1] \in IdentStart
                THEN [st EXCEPT !.bad = "syntax"]
                ELSE [st EXCEPT !.next = e + 1,
                                !.toks = Append(@, [t |-> "num", v |-> SubSeq(s, i, e)])]
    ELSE IF s[i] \in IdentStart
        THEN [st EXCEPT !.next = WordEnd(s, i) + 1,
                        !.toks = Append(@, [t |-> "id", v |-> SubSeq(s, i, WordEnd(s, i))])]
    ELSE IF OperatorAt(s, i) > 0
        THEN [st EXCEPT !.next = i + Len(JsOperators[OperatorAt(s, i)]),
                        !.toks = Append(@, [t |-> "op", v |-> JsOperators[OperatorAt(s, i)]])]
    ELSE [st EXCEPT !.bad = "unsupported"]

JsTokens(s) ==
    Iterate(LAMBDA st, i : TokenStep(st, s, i),
            [next |-> 1, toks |-> <<>>, bad |-> ""], 1, Len(s))

IsOp(toks, i, ops) ==
    i <= Len(toks) /\ toks[i].t = "op" /\ toks[i].v \in ops

ParseFail == [ok |-> FALSE, ast |-> <<>>, next |-> 0]

\* The expression grammar, lowest precedence first; every level is
\* left-associative.  A parse is [ok, ast, next].
RECURSIVE ParseOr(_, _), ParseUnary(_, _)

ParsePrimary(toks, i) ==
    LET Closed(e) ==
            IF e.ok /\ IsOp(toks, e.next, {<<")">>})
            THEN [e EXCEPT !.next = @ + 1]
            ELSE ParseFail
    IN IF i > Len(toks) THEN ParseFail
       ELSE IF toks[i].t = "num"
           THEN [ok |-> TRUE, ast |-> <<"num", NumberValue(toks[i].v)>>, next |-> i + 1]
       ELSE IF toks[i].t = "id"
           THEN [ok |-> TRUE, ast |-> <<"id", toks[i].v>>, next |-> i + 1]
       ELSE IF toks[i].v = <<"(">> THEN Closed(ParseOr(toks, i + 1))
       ELSE ParseFail

ParseUnary(toks, i) ==
    LET Negated(e) == IF e.ok THEN [e EXCEPT !.ast = <<"not", e.ast>>] ELSE ParseFail
    IN IF IsOp(toks, i, {<<"!">>})
       THEN Negated(ParseUnary(toks, i + 1))
       ELSE ParsePrimary(toks, i)

\* One level of binary operators: Operand parses an operand, ops are the
\* level's operators; left is the tree read so far.
RECURSIVE ParseRest(_, _, _, _, _)
ParseRest(Operand(_, _), ops, left, toks, i) ==
    LET Joined(r) ==
            IF r.ok
            THEN ParseRest(Operand, ops, <<"bin", toks[i].v, left, r.ast>>, toks, r.next)
            ELSE ParseFail
    IN IF IsOp(toks, i, ops) THEN Joined(Operand(toks, i + 1))
       ELSE [ok |-> TRUE, ast |-> left, next |-> i]

ParseLevel(Operand(_, _), ops, toks, i) ==
    LET First(l) == IF l.ok THEN ParseRest(Operand, ops, l.ast, toks, l.next) ELSE ParseFail
    IN First(Operand(toks, i))

ParseRel(toks, i) ==
    ParseLevel(ParseUnary, {<<"<">>, <<">">>, <<"<","=">>, <<">","=">>}, toks, i)

ParseEq(toks, i) ==
    ParseLevel(ParseRel, {<<"=","=","=">>, <<"!","=","=">>}, toks, i)

ParseAnd(toks, i) == ParseLevel(ParseEq, {<<"&","&">>}, toks, i)

ParseOr(toks, i) == ParseLevel(ParseAnd, {<<"|","|">>}, toks, i)

\* A JavaScript value of the subset: a number n, or a boolean (n is 1 or 0);
\* err marks a ReferenceError raised while evaluating.
JsBool(b) == [err |-> FALSE, bool |-> TRUE, n |-> IF b THEN 1 ELSE 0]

Truthy(v) == v.n # 0

RECURSIVE JsValue(_)
JsValue(ast) ==
    IF ast[1] = "num" THEN [err |-> FALSE, bool |-> FALSE, n |-> ast[2]]
    ELSE IF ast[1] = "id" THEN [err |-> TRUE, bool |-> FALSE, n |-> 0]
    ELSE IF ast[1] = "not"
        THEN LET a == JsValue(ast[2])
             IN IF a.err THEN a ELSE JsBool(~Truthy(a))
    ELSE LET a == JsValue(ast[3])
             b == JsValue(ast[4])
         IN IF a.err THEN a
            ELSE IF ast[2] = <<"&","&">> THEN (IF Truthy(a) THEN b ELSE a)
            ELSE IF ast[2] = <<"|","|">> THEN (IF Truthy(a) THEN a ELSE b)
            ELSE IF b.err THEN b
            ELSE IF ast[2] = <<"=","=","=">> THEN JsBool(a.bool = b.bool /\ a.n = b.n)
            ELSE IF ast[2] = <<"!","=","=">> THEN JsBool(~(a.bool = b.bool /\ a.n = b.n))
            ELSE IF ast[2] = <<"<">> THEN JsBool(a.n < b.n)
            ELSE IF ast[2] = <<">">> THEN JsBool(a.n > b.n)
            ELSE IF ast[2] = <<"<","=">> THEN JsBool(a.n <= b.n)
            ELSE JsBool(a.n >= b.n)

\* eval(text): "true" or "false" (the truthiness of the value), "throw" (a
\* SyntaxError or a ReferenceError), or "unsupported"
JsEval(text) ==
    LET Value(v) ==
            IF v.err THEN "throw" ELSE IF Truthy(v) THEN "true" ELSE "false"
        Parsed(parse, n) ==
            IF ~parse.ok \/ parse.next # n + 1 THEN "throw"
            ELSE Value(JsValue(parse.ast))
        Scanned(tk) ==
            IF tk.bad = "unsupported" THEN "unsupported"
            ELSE IF tk.bad = "syntax" THEN "throw"
            ELSE IF tk.toks = <<>> THEN "false"
            ELSE Parsed(ParseOr(tk.toks, 1), Len(tk.toks))
    IN Scanned(JsTokens(text))

\* a faulty variant of the evaluation: return eval(expr) ? true : false,
\* with no try around it
TryEvalNoCatch(text) ==
    LET Passed(r) ==
            [result |-> r = "true", threw |-> r = "throw",
             unsupported |-> r = "unsupported"]
    IN Passed(JsEval(text))

\* try { return eval(expr) ? true : false } catch (e) { return false }:
\* [result, threw]; threw says that an exception leaves the function
TryEval(text) ==
    LET Caught(r) ==
            [result |-> r = "true", threw |-> FALSE, unsupported |-> r = "unsupported"]
    IN Caught(JsEval(text))

\* evaluateExpression(expr, defines): [result, threw, unsupported]
EvaluateExpression(expr, defines) ==
    LET Decide(text) ==
            IF IsNumberText(text)
            THEN [result |-> NonZeroDigits(Trim(text)), threw |-> FALSE,
                  unsupported |-> FALSE]
            ELSE TryEval(text)
    IN Decide(EvalText(expr, defines))

(***************************************************************************)
(* processConditionals (conditional-processor.ts): reading one line        *)
(***************************************************************************)
KwDefine == <<"#","d","e","f","i","n","e">>

KwUndef == <<"#","u","n","d","e","f">>

KwIf == <<"#","i","f">>

KwIfdef == <<"#","i","f","d","e","f">>

KwIfndef == <<"#","i","f","n","d","e","f">>

KwElif == <<"#","e","l","i","f">>

KwElse == <<"#","e","l","s","e">>

KwEndif == <<"#","e","n","d","i","f">>

\* directiveLine: the trimmed line without its "//" comment, trimmed again
DirectiveLine(line) ==
    LET trimmedLine == Trim(line)
        commentIndex == IndexOf(trimmedLine, <<"/","/">>)
    IN IF commentIndex > 0
       THEN Trim(SubSeq(trimmedLine, 1, commentIndex - 1))
       ELSE trimmedLine

\* directiveLine.match(/^KW\s+/): the length of the match, 0 if there is none
MatchWs(d, kw) ==
    IF StartsWith(d, kw) /\ Len(d) > Len(kw) /\ d[Len(kw) + 1] \in Space
    THEN SkipWs(d, Len(kw) + 1) - 1
    ELSE 0

\* directiveLine.match(/^KW(?:\s|$)/)
MatchEnd(d, kw) ==
    StartsWith(d, kw) /\ (Len(d) = Len(kw) \/ d[Len(kw) + 1] \in Space)

\* the handler that takes the line: the tests are made in the order of the
\* source, and the first that succeeds ends the turn of the loop
LineKind(line) ==
    LET d == DirectiveLine(line)
    IN IF ~StartsWith(Trim(line), <<"#">>) THEN "plain"
       ELSE IF MatchWs(d, KwDefine) > 0 THEN "define"
       ELSE IF MatchWs(d, KwUndef) > 0 THEN "undef"
       ELSE IF MatchWs(d, KwIf) > 0 THEN "if"
       ELSE IF MatchWs(d, KwIfdef) > 0 THEN "ifdef"
       ELSE IF MatchWs(d, KwIfndef) > 0 THEN "ifndef"
       ELSE IF MatchWs(d, KwElif) > 0 THEN "elif"
       ELSE IF MatchEnd(d, KwElse) THEN "else"
       ELSE IF MatchEnd(d, KwEndif) THEN "endif"
       ELSE "custom"

\* directiveLine.substring(match[0].length).trim()
DirectiveArg(d, kw) == Trim(SubSeq(d, MatchWs(d, kw) + 1, Len(d)))

\* One parameter of the list of the function-like pattern,
\*   [a-zA-Z_][a-zA-Z0-9_]*(?:\s*,\s*[a-zA-Z_][a-zA-Z0-9_]*)*\s*\)
\* st = [pos, params, state]; state is "more" (a name is due at pos), "done"
\* (pos is just after the closing parenthesis) or "fail"
ParamStep(st, d) ==
    IF st.state # "more" THEN st
    ELSE LET n == IdentLenAt(d, st.pos)
             q == SkipWs(d, st.pos + n)
             params == Append(st.params, SubSeq(d, st.pos, st.pos + n - 1))
         IN IF n = 0 THEN [st EXCEPT !.state = "fail"]
            ELSE IF MatchAt(d, <<",">>, q)
                THEN [pos |-> SkipWs(d, q + 1), params |-> params, state |-> "more"]
            ELSE IF MatchAt(d, <<")">>, q)
                THEN [pos |-> q + 1, params |-> params, state |-> "done"]
            ELSE [st EXCEPT !.state = "fail"]

\* directiveLine.match(functionLikeRegex): [ok, name, params, value]
FunctionLikeMatch(d) ==
    LET p0 == MatchWs(d, KwDefine) + 1
        n == IdentLenAt(d, p0)
        p1 == SkipWs(d, p0 + n)
        list == Iterate(LAMBDA st, k : ParamStep(st, d),
                        [pos |-> SkipWs(d, p1 + 1), params |-> <<>>, state |-> "more"],
                        1, Len(d))
    IN IF n > 0 /\ MatchAt(d, <<"(">>, p1) /\ list.state = "done"
       THEN [ok |-> TRUE,
             name |-> SubSeq(d, p0, p0 + n - 1),
             params |-> list.params,
             value |-> SubSeq(d, SkipWs(d, list.pos), Len(d))]
       ELSE [ok |-> FALSE, name |-> <<>>, params |-> <<>>, value |-> <<>>]

\* directiveLine.match(/^#define\s+([a-zA-Z_][a-zA-Z0-9_]*)/): the name, <<>> if
\* there is no match
MacroNameMatch(d) ==
    LET p0 == MatchWs(d, KwDefine) + 1
    IN SubSeq(d, p0, p0 + IdentLenAt(d, p0) - 1)

\* directiveLine.substring(directiveLine.indexOf(name) + name.length).trim()
MacroValueText(d, name) ==
    Trim(SubSeq(d, IndexOf(d, name) + Len(name), Len(d)))

\* /^#undef\s+([a-zA-Z_][a-zA-Z0-9_]*)$/: the name, <<>> if there is no match
UndefNameMatch(d) ==
    LET rest == SubSeq(d, MatchWs(d, KwUndef) + 1, Len(d))
    IN IF IsIdentifier(rest) THEN rest ELSE <<>>

(***************************************************************************)
(* The macro table                                                         *)
(***************************************************************************)
\* defines.set(m.name, m): an entry of that name keeps its place
SetMacro(defines, m) ==
    IF Has(defines, m.name)
    THEN [k \in 1..Len(defines) |->
             IF defines[k].name = m.name THEN m ELSE defines[k]]
    ELSE Append(defines, m)

\* defines.delete(name)
DeleteMacro(defines, name) == SelectSeq(defines, LAMBDA m : m.name # name)

(***************************************************************************)
(* processConditionals: the handlers                                       *)
(*                                                                         *)
(* A frame of conditionalStack is [including, hasBeenTrue, hasElse]; the   *)
(* last element of the sequence is the top of the stack.  A thrown Error   *)
(* is a record like ArityError whose kind is the message.                  *)
(***************************************************************************)
Failure(message) == [kind |-> message, name |-> <<>>, expects |-> 0, got |-> 0]

\* a faulty variant of isCurrentlyIncluding: the loop answers at the first
\* frame that includes
AnyFrameIncluding(stack) ==
    stack = <<>> \/ \E k \in 1..Len(stack) : stack[k].including

\* isCurrentlyIncluding()
IsCurrentlyIncluding(stack) ==
    \A k \in 1..Len(stack) : stack[k].including

\* the frame pushed by #if, #ifdef and #ifndef
OpenFrame(result) ==
    [including |-> result, hasBeenTrue |-> result, hasElse |-> FALSE]

\* a faulty variant of the parent's flag: the frame beneath the top is not
\* looked at
ParentAlwaysIncluding(stack) == TRUE

\* conditionalStack.length > 1 ? conditionalStack[length - 2].including : true
ParentIncluding(stack) ==
    IF Len(stack) > 1 THEN stack[Len(stack) - 1].including ELSE TRUE

Top(stack) == stack[Len(stack)]

SetTop(stack, frame) == [stack EXCEPT ![Len(stack)] = frame]

\* expandedValue = value ? expandMacros(value, new Map(defines)) : ""
ExpandedValue(value, defines) ==
    IF value # <<>> THEN ExpandMacros(value, defines)
    ELSE [text |-> <<>>, err |-> NoError, iters |-> 0, warned |-> FALSE,
          pending |-> FALSE]

\* the #define handler: [defines, err]
DefineHandler(d, stack, defines) ==
    LET fl == FunctionLikeMatch(d)
        name == MacroNameMatch(d)
        expanded == ExpandedValue(MacroValueText(d, name), defines)
    IN IF ~IsCurrentlyIncluding(stack) THEN [defines |-> defines, err |-> NoError]
       ELSE IF fl.ok
           THEN [defines |-> SetMacro(defines, FunctionMacro(fl.name, fl.params, fl.value)),
                 err |-> NoError]
       ELSE IF name = <<>> THEN [defines |-> defines, err |-> NoError]
       ELSE IF expanded.err.kind # "none" THEN [defines |-> defines, err |-> expanded.err]
       ELSE [defines |-> SetMacro(defines, ObjectMacro(name, expanded.text)),
             err |-> NoError]

\* a faulty variant of the #undef handler: it does not ask whether the region
\* is included
UndefAlways(d, stack, defines) ==
    IF UndefNameMatch(d) # <<>>
    THEN DeleteMacro(defines, UndefNameMatch(d))
    ELSE defines

\* the #undef handler: the table after it
UndefHandler(d, stack, defines) ==
    IF IsCurrentlyIncluding(stack) /\ UndefNameMatch(d) # <<>>
    THEN DeleteMacro(defines, UndefNameMatch(d))
    ELSE defines

\* the condition of an opening directive or of an #elif, as its handler
\* computes it: [result, threw]
Condition(kind, d, defines) ==
    IF kind = "if"
        THEN EvaluateExpression(DirectiveArg(d, KwIf), defines)
    ELSE IF kind = "elif"
        THEN EvaluateExpression(DirectiveArg(d, KwElif), defines)
    ELSE IF kind = "ifdef"
        THEN [result |-> Has(defines, DirectiveArg(d, KwIfdef)),
              threw |-> FALSE, unsupported |-> FALSE]
    ELSE [result |-> ~Has(defines, DirectiveArg(d, KwIfndef)),
          threw |-> FALSE, unsupported |-> FALSE]

\* a faulty variant of the opening handlers: the condition is evaluated
\* whether or not the region is included
OpenEvaluatesAlways(kind, d, stack, defines) ==
    LET cond == Condition(kind, d, defines)
    IN IF cond.threw THEN [stack |-> stack, err |-> Failure("eval")]
       ELSE [stack |-> Append(stack, OpenFrame(cond.result)), err |-> NoError]

\* the #if, #ifdef and #ifndef handlers: [stack, err]
OpenHandler(kind, d, stack, defines) ==
    LET cond == Condition(kind, d, defines)
    IN IF ~IsCurrentlyIncluding(stack)
           THEN [stack |-> Append(stack, OpenFrame(FALSE)), err |-> NoError]
       ELSE IF cond.threw
           THEN [stack |-> stack, err |-> Failure("eval")]
       ELSE [stack |-> Append(stack, OpenFrame(cond.result)), err |-> NoError]

\* a faulty variant of the #elif handler: it does not ask whether an earlier
\* branch of the chain was taken
ElifIgnoringTaken(d, stack, defines) ==
    LET currentState == Top(stack)
        cond == Condition("elif", d, defines)
    IN IF Len(stack) = 0
           THEN [stack |-> stack, err |-> Failure("Unexpected #elif without matching #if")]
       ELSE IF currentState.hasElse
           THEN [stack |-> stack, err |-> Failure("Unexpected #elif after #else")]
       ELSE IF ~ParentIncluding(stack)
           THEN [stack |-> SetTop(stack, [currentState EXCEPT !.including = FALSE]),
                 err |-> NoError]
       ELSE [stack |-> SetTop(stack, [currentState EXCEPT
                                          !.including = cond.result,
                                          !.hasBeenTrue = @ \/ cond.result]),
             err |-> NoError]

\* the #elif handler: [stack, err]
ElifHandler(d, stack, defines) ==
    LET currentState == Top(stack)
        cond == Condition("elif", d, defines)
    IN IF Len(stack) = 0
           THEN [stack |-> stack, err |-> Failure("Unexpected #elif without matching #if")]
       ELSE IF currentState.hasElse
           THEN [stack |-> stack, err |-> Failure("Unexpected #elif after #else")]
       ELSE IF currentState.hasBeenTrue \/ ~ParentIncluding(stack)
           THEN [stack |-> SetTop(stack, [currentState EXCEPT !.including = FALSE]),
                 err |-> NoError]
       ELSE IF cond.threw
           THEN [stack |-> stack, err |-> Failure("eval")]
       ELSE [stack |-> SetTop(stack, [currentState EXCEPT
                                          !.including = cond.result,
                                          !.hasBeenTrue = cond.result]),
             err |-> NoError]

\* a faulty variant of the #else handler: it does not reject a second #else
ElseWithoutCheck(stack) ==
    LET currentState == Top(stack)
    IN IF Len(stack) = 0
           THEN [stack |-> stack, err |-> Failure("Unexpected #else without matching #if")]
       ELSE IF ~currentState.hasBeenTrue
           THEN [stack |-> SetTop(stack, [including |-> ParentIncluding(stack),
                                          hasBeenTrue |-> TRUE,
                                          hasElse |-> TRUE]),
                 err |-> NoError]
       ELSE [stack |-> SetTop(stack, [currentState EXCEPT !.including = FALSE,
                                                          !.hasElse = TRUE]),
             err |-> NoError]

\* the #else handler: [stack, err]
ElseHandler(stack) ==
    LET currentState == Top(stack)
    IN IF Len(stack) = 0
           THEN [stack |-> stack, err |-> Failure("Unexpected #else without matching #if")]
       ELSE IF currentState.hasElse
           THEN [stack |-> stack,
                 err |-> Failure("Multiple #else directives for the same conditional")]
       ELSE IF ~currentState.hasBeenTrue
           THEN [stack |-> SetTop(stack, [including |-> ParentIncluding(stack),
                                          hasBeenTrue |-> TRUE,
                                          hasElse |-> TRUE]),
                 err |-> NoError]
       ELSE [stack |-> SetTop(stack, [currentState EXCEPT !.including = FALSE,
                                                          !.hasElse = TRUE]),
             err |-> NoError]

\* a faulty variant of the #endif handler: it pops without looking (pop() of
\* an empty array does nothing)
EndifPopsAnyway(stack) ==
    [stack |-> SubSeq(stack, 1, Len(stack) - 1), err |-> NoError]

\* the #endif handler: [stack, err]
EndifHandler(stack) ==
    IF Len(stack) = 0
    THEN [stack |-> stack, err |-> Failure("Unexpected #endif without matching #if")]
    ELSE [stack |-> SubSeq(stack, 1, Len(stack) - 1), err |-> NoError]

\* a line that is no directive, or a directive that no handler takes:
\* [lines, err] with lines the result lines after it
PlainHandler(line, stack, defines, lines) ==
    LET expandedLine == ExpandMacros(line, defines)
    IN IF ~IsCurrentlyIncluding(stack) THEN [lines |-> lines, err |-> NoError]
       ELSE IF expandedLine.err.kind # "none" THEN [lines |-> lines, err |-> expandedLine.err]
       ELSE [lines |-> Append(lines, expandedLine.text), err |-> NoError]

\* a faulty variant of the handler of the other "#" lines: the line is passed
\* on whether or not the region is included
CustomAlways(line, stack, lines) == Append(lines, line)

\* a "#" line that none of the eight patterns matches: the result lines after it
CustomHandler(line, stack, lines) ==
    IF IsCurrentlyIncluding(stack) THEN Append(lines, line) ELSE lines

\* after the last line: the Error thrown, if any
EndHandler(stack) ==
    IF Len(stack) > 0 THEN Failure("Unmatched #if, #ifdef, or #ifndef") ELSE NoError

\* processConditionals(lines, defines) as one call: the handlers applied to
\* the lines in turn, then the test after the loop:
\* [lines, defines, stack, err]; err is the Error thrown, and then nothing
\* is returned (defines is the caller's Map, changed in place)
ProcessConditionals(lines, defines) ==
    LET Stack(st, r) == [st EXCEPT !.stack = r.stack, !.err = r.err]
        Step(st, l) ==
            LET kind == LineKind(l)
                d == DirectiveLine(l)
            IN IF st.err.kind # "none" THEN st
               ELSE IF kind = "define"
                   THEN LET r == DefineHandler(d, st.stack, st.defines)
                        IN [st EXCEPT !.defines = r.defines, !.err = r.err]
               ELSE IF kind = "undef"
                   THEN [st EXCEPT !.defines = UndefHandler(d, st.stack, st.defines)]
               ELSE IF kind \in {"if", "ifdef", "ifndef"}
                   THEN Stack(st, OpenHandler(kind, d, st.stack, st.defines))
               ELSE IF kind = "elif"
                   THEN Stack(st, ElifHandler(d, st.stack, st.defines))
               ELSE IF kind = "else" THEN Stack(st, ElseHandler(st.stack))
               ELSE IF kind = "endif" THEN Stack(st, EndifHandler(st.stack))
               ELSE IF kind = "custom"
                   THEN [st EXCEPT !.lines = CustomHandler(l, st.stack, st.lines)]
               ELSE LET r == PlainHandler(l, st.stack, st.defines, st.lines)
                    IN [st EXCEPT !.lines = r.lines, !.err = r.err]
        AtEnd(st) ==
            IF st.err.kind # "none" THEN st
            ELSE [st EXCEPT !.err = EndHandler(st.stack)]
    IN AtEnd(Iterate(LAMBDA st, k : Step(st, lines[k]),
                     [lines |-> <<>>, defines |-> defines, stack |-> <<>>,
                      err |-> NoError],
                     1, Len(lines)))

(***************************************************************************)
(* processConditionals(lines, defines) as a state machine: one step per    *)
(* line of the input, then the step that ends the loop.  The lines are     *)
(* drawn one at a time from Lines; the table passed in is drawn from       *)
(* InitialTables.                                                          *)
(***************************************************************************)
MaxLines == 4

NameA == <<"A">>

NameB == <<"B">>

Lines ==
    { KwDefine \o <<" ","A"," ","1">>,
      KwDefine \o <<" ","A"," ","A">>,
      KwDefine \o <<" ","B"," ","A">>,
      KwUndef \o <<" ","A">>,
      KwIf \o <<" ","A">>,
      KwIf \o <<" ","(","A">>,
      KwIfdef \o <<" ","A">>,
      KwIfdef \o <<" ","B">>,
      KwIfndef \o <<" ","B">>,
      KwElif \o <<" ","1">>,
      KwElif \o <<" ","A"," ","&","&">>,
      KwElse,
      <<" ">> \o KwEndif \o <<" ","/","/"," ","c">>,
      <<"#","p","r","a","g","m","a"," ","A">>,
      <<"A"," ","B">> }

InitialTables ==
    { <<>>,
      <<ObjectMacro(NameA, <<"1">>)>>,
      <<ObjectMacro(NameB, <<"2">>)>>,
      <<ObjectMacro(NameA, <<"1">>), ObjectMacro(NameB, <<"2">>)>> }

VARIABLES
    conditionalStack,   \* the frames, the top last
    defines,            \* the macro table
    resultLines,        \* the lines emitted so far
    pc,                 \* "running", "returned" (resultLines is the result) or "threw"
    error,              \* the Error thrown, NoError if none
    count,              \* the number of lines read
    line,               \* the line read by the last step
    step,               \* the handler that took it
    chain,              \* per frame: [cond, prior, elseSeen], the condition of
                        \*   the current branch by itself, whether an earlier
                        \*   branch's held, and whether the #else was read
    open,               \* opening directives read minus #endif directives obeyed
    captured,           \* pairs <<X, Y>>: the text defining X named the macro Y
    call,               \* a direct call of expandMacros, evaluateExpression
                        \*   or processConditionals on (line, defines):
                        \*   [fn, out]
    index,              \* the name counter of next-name.ts (module state)
    run,                \* the last call of the obfuscation module: [fn, code,
                        \*   out, threw, names, before, tokens,
                        \*   obfuscatedTokens, bindingMap]; names: the names
                        \*   nextName() handed out during the call; before:
                        \*   the counter when the call was made
    first               \* the first call of obfuscate: [set, code, out, threw,
                        \*   between]; between: some other call was made
                        \*   after it

vars == <<conditionalStack, defines, resultLines, pc, error, count, line, step,
          chain, open, captured, call, index, run, first>>

NoRun == [fn |-> "none", code |-> <<>>, out |-> <<>>, threw |-> FALSE,
          names |-> <<>>, before |-> 0, tokens |-> <<>>, obfuscatedTokens |-> <<>>,
          bindingMap |-> <<>>]

NoCall == [fn |-> "none", out |-> <<>>]

Init ==
    /\ conditionalStack = <<>>
    /\ defines \in InitialTables
    /\ resultLines = <<>>
    /\ pc = "running"
    /\ error = NoError
    /\ count = 0
    /\ line = <<>>
    /\ step = "start"
    /\ chain = <<>>
    /\ open = 0
    /\ captured = {}
    /\ call = NoCall
    /\ index = 0
    /\ run = NoRun
    /\ first = [set |-> FALSE, code |-> <<>>, out |-> <<>>, threw |-> FALSE,
                between |-> FALSE]

\* a line of the given kind is read
Reads(l, kind) ==
    /\ pc = "running"
    /\ count < MaxLines
    /\ LineKind(l) = kind
    /\ count' = count + 1
    /\ line' = l
    /\ step' = kind
    /\ call' = call
    /\ UNCHANGED <<index, run, first>>

\* the step ends normally or by throwing err
Outcome(err) ==
    /\ error' = err
    /\ pc' = IF err.kind = "none" THEN "running" ELSE "threw"

\* the text after the macro name of a #define line
DefineText(d) ==
    LET p0 == MatchWs(d, KwDefine) + 1
    IN Trim(SubSeq(d, p0 + IdentLenAt(d, p0), Len(d)))

\* the names of the table that occur as words in a text
NamedIn(text, table) ==
    {table[k].name : k \in {j \in 1..Len(table) :
                               \E i \in 1..Len(text) : WordAt(text, table[j].name, i)}}

Define(l) ==
    LET d == DirectiveLine(l)
        r == DefineHandler(d, conditionalStack, defines)
        name == MacroNameMatch(d)
    IN /\ Reads(l, "define")
       /\ defines' = r.defines
       /\ Outcome(r.err)
       /\ captured' =
              IF IsCurrentlyIncluding(conditionalStack) /\ name # <<>> /\ r.err.kind = "none"
              THEN {c \in captured : c[1] # name}
                   \cup {<<name, y>> : y \in NamedIn(DefineText(d), defines)}
              ELSE captured
       /\ UNCHANGED <<conditionalStack, resultLines, chain, open>>

Undef(l) ==
    LET d == DirectiveLine(l)
    IN /\ Reads(l, "undef")
       /\ defines' = UndefHandler(d, conditionalStack, defines)
       /\ Outcome(NoError)
       /\ captured' = {c \in captured : Has(defines', c[1])}
       /\ UNCHANGED <<conditionalStack, resultLines, chain, open>>

\* the effect of an opening directive
Pushes(l, kind) ==
    LET d == DirectiveLine(l)
        r == OpenHandler(kind, d, conditionalStack, defines)
    IN /\ conditionalStack' = r.stack
       /\ Outcome(r.err)
       /\ chain' = IF r.err.kind = "none"
                   THEN Append(chain, [cond |-> Condition(kind, d, defines).result,
                                       prior |-> FALSE, elseSeen |-> FALSE])
                   ELSE chain
       /\ open' = IF r.err.kind = "none" THEN open + 1 ELSE open
       /\ UNCHANGED <<defines, resultLines, captured>>

If(l) ==
    /\ Reads(l, "if")
    /\ Pushes(l, "if")

Ifdef(l) ==
    /\ Reads(l, "ifdef")
    /\ Pushes(l, "ifdef")

Ifndef(l) ==
    /\ Reads(l, "ifndef")
    /\ Pushes(l, "ifndef")

\* the record of the chain when its next branch starts
NextBranch(ch, cond, isElse) ==
    [ch EXCEPT ![Len(ch)] = [cond |-> cond, prior |-> @.prior \/ @.cond,
                             elseSeen |-> isElse]]

Elif(l) ==
    LET d == DirectiveLine(l)
        r == ElifHandler(d, conditionalStack, defines)
    IN /\ Reads(l, "elif")
       /\ conditionalStack' = r.stack
       /\ Outcome(r.err)
       /\ chain' = IF r.err.kind = "none"
                   THEN NextBranch(chain, Condition("elif", d, defines).result, FALSE)
                   ELSE chain
       /\ UNCHANGED <<defines, resultLines, open, captured>>

Else(l) ==
    LET r == ElseHandler(conditionalStack)
    IN /\ Reads(l, "else")
       /\ conditionalStack' = r.stack
       /\ Outcome(r.err)
       /\ chain' = IF r.err.kind = "none" THEN NextBranch(chain, TRUE, TRUE) ELSE chain
       /\ UNCHANGED <<defines, resultLines, open, captured>>

Endif(l) ==
    LET r == EndifHandler(conditionalStack)
    IN /\ Reads(l, "endif")
       /\ conditionalStack' = r.stack
       /\ Outcome(r.err)
       /\ chain' = IF r.err.kind = "none" THEN SubSeq(chain, 1, Len(chain) - 1) ELSE chain
       /\ open' = IF r.err.kind = "none" THEN open - 1 ELSE open
       /\ UNCHANGED <<defines, resultLines, captured>>

Custom(l) ==
    /\ Reads(l, "custom")
    /\ resultLines' = CustomHandler(l, conditionalStack, resultLines)
    /\ Outcome(NoError)
    /\ UNCHANGED <<conditionalStack, defines, chain, open, captured>>

Plain(l) ==
    LET r == PlainHandler(l, conditionalStack, defines, resultLines)
    IN /\ Reads(l, "plain")
       /\ resultLines' = r.lines
       /\ Outcome(r.err)
       /\ UNCHANGED <<conditionalStack, defines, chain, open, captured>>

\* i reaches lines.length
EndOfInput ==
    /\ pc = "running"
    /\ error' = EndHandler(conditionalStack)
    /\ pc' = IF error'.kind = "none" THEN "returned" ELSE "threw"
    /\ step' = "end"
    /\ line' = <<>>
    /\ UNCHANGED <<conditionalStack, defines, resultLines, count, chain, open,
                   captured, call, index, run, first>>

Next ==
    \/ \E l \in Lines : Define(l)
    \/ \E l \in Lines : Undef(l)
    \/ \E l \in Lines : If(l)
    \/ \E l \in Lines : Ifdef(l)
    \/ \E l \in Lines : Ifndef(l)
    \/ \E l \in Lines : Elif(l)
    \/ \E l \in Lines : Else(l)
    \/ \E l \in Lines : Endif(l)
    \/ \E l \in Lines : Custom(l)
    \/ \E l \in Lines : Plain(l)
    \/ EndOfInput

Spec == Init /\ [][Next]_vars

(***************************************************************************)
(* expandMacros, evaluateExpression and processConditionals called         *)
(* directly: the text and the macro table are drawn from CallTexts and     *)
(* CallTables, and one of the functions is applied to them                 *)
(* (processConditionals to the one line).                                  *)
(***************************************************************************)
CallTexts ==
    { <<"A">>,
      <<"A"," ","B">>,
      <<"\"","A","\"">>,
      <<"'","B","'"," ","\"","A","\"">>,
      <<"\"","S","T","R","I","N","G","_","L","I","T","E","R","A","L","_","0","\"">>,
      <<"\"","A","$","$","\"">>,
      <<"F","(","1",")">>,
      <<"F","(","1",",","2">>,
      <<"F","(",")">>,
      <<"F","(","1",",","2",")">>,
      <<"G","(","1",")">>,
      <<"G","(","1",",","2",")">>,
      <<"G","(","2",",","(","1">>,
      <<>>,
      <<"(","A">>,
      <<"A",")">>,
      <<"A"," ","&","&">>,
      <<"&","&"," ","A">>,
      <<"A"," ","=","=">>,
      <<"(","A"," ",">"," ","1">>,
      <<"A"," ",">"," ","<"," ","1">>,
      <<"A"," ","=","="," ","&","&"," ","B">>,
      <<"A"," ","=","="," ","B">>,
      <<"d","e","f","i","n","e","d","(","A",")">>,
      <<"!","A">>,
      <<"A"," ","|","|"," ","(","B">>,
      <<"F","(","b",","," ","1",")">>,
      <<"A"," ","=","="," ","V">>,
      <<"V"," ","=","="," ","A">>,
      <<"A"," ","=","="," ","V"," ","&","&"," ","B"," ","=","="," ","V">>,
      KwDefine \o <<" ","F","(","x",")"," ","A"," ","x">>,
      KwDefine \o <<" ","B"," ","(","x",")"," ","A">>,
      KwDefine \o <<" ","e"," ","1">>,
      KwDefine \o <<" ","B"," ","A"," ","/","/"," ","c">>,
      KwDefine,
      KwIf \o <<"(","A",")">>,
      <<"A","p","p","l","e","s">>,
      <<"_","A","1"," ","B","B">>,
      <<"v","2","A">>,
      <<"S"," ","A">> }

CallTables ==
    { <<>>,
      <<ObjectMacro(<<"A">>, <<"B">>),
         ObjectMacro(<<"B">>, <<"A">>)>>,
      <<ObjectMacro(<<"A">>, <<"1">>),
         ObjectMacro(<<"B">>, <<"2">>)>>,
      <<FunctionMacro(<<"F">>, <<<<"x">>>>, <<"x">>),
         FunctionMacro(<<"G">>, <<<<"x">>, <<"y">>>>, <<"y"," ","x">>)>>,
      <<ObjectMacro(<<"S","T","R","I","N","G","_","L","I","T","E","R","A","L","_","0">>, <<"A">>),
         ObjectMacro(<<"A">>, <<"1",")">>)>>,
      <<FunctionMacro(<<"F">>, <<<<"x">>>>, <<"F","(","x",")">>),
         ObjectMacro(<<"B">>, <<"A">>)>>,
      <<FunctionMacro(<<"F">>, <<<<"a">>, <<"b">>>>, <<"a"," ","+"," ","b">>)>>,
      <<ObjectMacro(<<"A">>, <<"V">>),
         ObjectMacro(<<"B">>, <<"V">>)>>,
      <<ObjectMacro(<<"S">>, <<"\"","A","\"">>),
         ObjectMacro(<<"A">>, <<"1">>)>> }

CallInit ==
    /\ line \in CallTexts
    /\ defines \in CallTables
    /\ call = NoCall
    /\ conditionalStack = <<>>
    /\ resultLines = <<>>
    /\ pc = "running"
    /\ error = NoError
    /\ count = 0
    /\ step = "start"
    /\ chain = <<>>
    /\ open = 0
    /\ captured = {}
    /\ index = 0
    /\ run = NoRun
    /\ first = [set |-> FALSE, code |-> <<>>, out |-> <<>>, threw |-> FALSE,
                between |-> FALSE]

ExpandCall ==
    /\ call.fn = "none"
    /\ call' = [fn |-> "expandMacros", out |-> ExpandMacros(line, defines)]
    /\ UNCHANGED <<conditionalStack, defines, resultLines, pc, error, count, line,
                   step, chain, open, captured, index, run, first>>

EvaluateCall ==
    /\ call.fn = "none"
    /\ call' = [fn |-> "evaluateExpression", out |-> EvaluateExpression(line, defines)]
    /\ UNCHANGED <<conditionalStack, defines, resultLines, pc, error, count, line,
                   step, chain, open, captured, index, run, first>>

\* processConditionals([line], defines)
ProcessCall ==
    /\ call.fn = "none"
    /\ call' = [fn |-> "processConditionals",
                out |-> ProcessConditionals(<<line>>, defines)]
    /\ UNCHANGED <<conditionalStack, defines, resultLines, pc, error, count, line,
                   step, chain, open, captured, index, run, first>>

CallNext ==
    \/ ExpandCall
    \/ EvaluateCall
    \/ ProcessCall

CallSpec == CallInit /\ [][CallNext]_vars

(***************************************************************************)
(* Properties                                                              *)
(***************************************************************************)
\* the step read a line of that kind and did not throw
Handled(kind) == step' = kind /\ pc' = "running"

AllIncluding == \A k \in 1..Len(conditionalStack) : conditionalStack[k].including

Emitted == Len(resultLines') = Len(resultLines) + 1

\* C1: a line that is no directive is emitted, macro-expanded, if and only if
\* every frame of the stack has including = true when the line is read; with
\* every frame in a branch that no earlier branch of its chain preceded as
\* true (nested #ifdef OUTER / #ifdef INNER), that is if and only if the
\* condition of every frame held (both names defined).
C1_EmittedIffEveryFrameIncludes ==
    [][Handled("plain") =>
         /\ Emitted <=> AllIncluding
         /\ Emitted => resultLines' = Append(resultLines, ExpandMacros(line', defines).text)
         /\ ~Emitted => resultLines' = resultLines
         /\ (\A k \in 1..Len(chain) : ~chain[k].prior)
                => (Emitted <=> \A k \in 1..Len(chain) : chain[k].cond)]_vars

\* a line inside two nested conditionals has been emitted
C1_Witness ==
    /\ step = "plain"
    /\ count = 3
    /\ Len(conditionalStack) = 2
    /\ AllIncluding
    /\ Len(resultLines) = 1

\* the frames beneath the top frame all include
EnclosingIncludes ==
    \A k \in 1..(Len(conditionalStack) - 1) : conditionalStack[k].including

\* C2: in a chain whose enclosing context includes, a line of a branch is
\* emitted if and only if the branch's own condition held when its directive
\* was read (an #else counts as true) and no earlier branch of the chain had a
\* condition that held; so at most one branch of the chain is emitted, the
\* first true one, and every branch after it is excluded whatever its condition.
C2_OnlyFirstTrueBranchEmitted ==
    [][(Handled("plain") /\ Len(conditionalStack) > 0 /\ EnclosingIncludes) =>
         (Emitted <=> (chain[Len(chain)].cond /\ ~chain[Len(chain)].prior))]_vars

\* a line of an #elif branch whose condition holds, in a chain with an
\* earlier taken branch, has been read and not emitted
C2_Witness ==
    /\ step = "plain"
    /\ count = 4
    /\ Len(conditionalStack) = 1
    /\ ~conditionalStack[1].hasElse
    /\ chain[1].cond /\ chain[1].prior
    /\ ~chain[1].elseSeen
    /\ resultLines = <<>>

\* C3: a #elif, #else or #endif read while no conditional is open, and the
\* end of the input reached while one is open, abort the run with an Error
\* (nothing is returned); the run returns only with every opened conditional
\* closed.
C3_UnbalancedAborts ==
    [][/\ (step' \in {"elif", "else", "endif"} /\ open = 0)
            => (pc' = "threw" /\ error'.kind # "none")
       /\ (step' = "end" /\ open > 0)
            => (pc' = "threw" /\ error'.kind = "Unmatched #if, #ifdef, or #ifndef")
       /\ pc' = "returned" => (open = 0 /\ step' = "end" /\ error'.kind = "none")]_vars

\* the input ended inside a conditional after a line was emitted: the run
\* threw and returned nothing
C3_Witness ==
    /\ pc = "threw"
    /\ step = "end"
    /\ open > 0
    /\ resultLines # <<>>

\* C4: an #else or #elif read in a chain whose #else was read before aborts the
\* run with an Error, at any depth and whether or not the enclosing frames
\* include.
C4_ElseTwiceAborts ==
    [][(step' \in {"else", "elif"} /\ Len(chain) > 0 /\ chain[Len(chain)].elseSeen)
         => /\ pc' = "threw"
            /\ error'.kind = IF step' = "else"
                             THEN "Multiple #else directives for the same conditional"
                             ELSE "Unexpected #elif after #else"]_vars

\* a second #else of an inner chain, inside an excluded outer branch, threw
C4_Witness ==
    /\ pc = "threw"
    /\ step = "else"
    /\ Len(conditionalStack) = 2
    /\ ~conditionalStack[1].including
    /\ chain[2].elseSeen
    /\ error.kind = "Multiple #else directives for the same conditional"

InMutualTable ==
    defines = <<ObjectMacro(NameA, <<"B">>), ObjectMacro(NameB, <<"A">>)>>

LiteralStep(st, c) ==
    IF st.q = ""
    THEN IF c \in {"\"", "'"} THEN [st EXCEPT !.q = c]
         ELSE [st EXCEPT !.out = Append(@, c)]
    ELSE IF c = st.q THEN [q |-> "", out |-> Append(st.out, " ")]
    ELSE st

OutsideLiterals(text) ==
    Iterate(LAMBDA st, i : LiteralStep(st, text[i]), [q |-> "", out |-> <<>>],
            1, Len(text)).out

\* some macro's name occurs in the text, and none occurs outside its literals
NamedOnlyInLiterals(text, table) ==
    /\ \E k \in 1..Len(table) : IndexOf(text, table[k].name) > 0
    /\ \A k \in 1..Len(table) : IndexOf(OutsideLiterals(text), table[k].name) = 0

\* C6: a line in which macro names occur only inside quoted string literals
\* is returned by expandMacros unchanged, character for character.
C6_LiteralsUnchanged ==
    (call.fn = "expandMacros" /\ NamedOnlyInLiterals(line, defines)) =>
        (call.out.err.kind = "none" /\ call.out.text = line)

\* One character of an invocation as it is written, after its "(":
\* st = [depth, commas, blank, closed]
WrittenStep(st, c) ==
    IF st.closed THEN st
    ELSE IF c = "(" THEN [st EXCEPT !.depth = @ + 1, !.blank = FALSE]
    ELSE IF c = ")"
        THEN IF st.depth = 1 THEN [st EXCEPT !.closed = TRUE]
             ELSE [st EXCEPT !.depth = @ - 1]
    ELSE IF c = "," /\ st.depth = 1 THEN [st EXCEPT !.commas = @ + 1, !.blank = FALSE]
    ELSE IF c \notin Space THEN [st EXCEPT !.blank = FALSE]
    ELSE st

WrittenCall(s, paren) ==
    Iterate(LAMBDA st, i : WrittenStep(st, s[i]),
            [depth |-> 1, commas |-> 0, blank |-> TRUE, closed |-> FALSE],
            paren + 1, Len(s))

\* the number of arguments written: none in an empty list
WrittenCount(w) == IF w.blank THEN 0 ELSE w.commas + 1

\* the first invocation of the macro m in the text is not closed, or has a
\* number of arguments other than the number of m's parameters
WrongInvocation(text, m) ==
    /\ m.fn
    /\ FindCall(text, m.name, 1).start > 0
    /\ LET w == WrittenCall(text, FindCall(text, m.name, 1).open)
       IN ~w.closed \/ WrittenCount(w) # Len(m.params)

\* C7: an invocation of a function-like macro of k parameters that is written
\* with another number j of arguments (an empty list is no argument), or that
\* is not closed, makes expandMacros throw the Error naming the macro, k and
\* j; it is not expanded.
C7_WrongArityThrows ==
    call.fn = "expandMacros" =>
        \A k \in 1..Len(defines) :
            WrongInvocation(line, defines[k]) =>
                LET w == WrittenCall(line, FindCall(line, defines[k].name, 1).open)
                IN /\ call.out.err.kind = "arity"
                   /\ call.out.err.name = defines[k].name
                   /\ call.out.err.expects = Len(defines[k].params)
                   /\ w.closed => call.out.err.got = WrittenCount(w)

\* the steps at which an object-like #define is obeyed
ObjectDefined ==
    /\ Handled("define")
    /\ IsCurrentlyIncluding(conditionalStack)
    /\ ~FunctionLikeMatch(DirectiveLine(line')).ok
    /\ MacroNameMatch(DirectiveLine(line')) # <<>>

\* the table changes at the name y only, and what x expands to stays
KeepsExpansion(x, y) ==
    (x # y /\ Has(defines, x) /\ Has(defines', x))
        => ExpandMacros(x, defines').text = ExpandMacros(x, defines).text

\* C8: an object-like #define X rhs obeyed while including stores for X the
\* expansion of rhs against the table of that moment, and a later #undef or
\* #define of a macro that the rhs of X named leaves the expansion of X as
\* it was.
C8_ValueCapturedAtDefinition ==
    [][/\ ObjectDefined =>
            /\ Has(defines', MacroNameMatch(DirectiveLine(line')))
            /\ Get(defines', MacroNameMatch(DirectiveLine(line'))).value
                   = ExpandMacros(DefineText(DirectiveLine(line')), defines).text
       /\ (Handled("define") \/ Handled("undef")) =>
            \A c \in captured :
                (Has(defines, c[2]) /\ (~Has(defines', c[2])
                                          \/ Get(defines', c[2]) # Get(defines, c[2])))
                    => KeepsExpansion(c[1], c[2])]_vars

\* One character of the count of parentheses: st = [depth, low], low says
\* that a ")" came with none open.
ParenStep(st, c) ==
    IF c = "(" THEN [st EXCEPT !.depth = @ + 1]
    ELSE IF c = ")" THEN [depth |-> st.depth - 1, low |-> st.low \/ st.depth = 0]
    ELSE st

Unbalanced(text) ==
    LET r == Iterate(LAMBDA st, i : ParenStep(st, text[i]),
                     [depth |-> 0, low |-> FALSE], 1, Len(text))
    IN r.low \/ r.depth # 0

BinaryOperators ==
    { <<"=","=","=">>, <<"!","=","=">>, <<"&","&">>, <<"|","|">>,
      <<"<","=">>, <<">","=">>, <<"<">>, <<">">> }

\* an operator of the token list lacks an operand
Dangling(toks) ==
    \E k \in 1..Len(toks) :
        /\ toks[k].t = "op"
        /\ \/ /\ toks[k].v \in BinaryOperators
              /\ k = 1 \/ (toks[k - 1].t = "op" /\ toks[k - 1].v # <<")">>)
           \/ /\ toks[k].v \in BinaryOperators \cup {<<"!">>}
              /\ k = Len(toks)
                    \/ (toks[k + 1].t = "op" /\ toks[k + 1].v \notin {<<"(">>, <<"!">>})

\* the expression, as it reaches the evaluation with its names replaced, is
\* empty, has unbalanced parentheses or has a dangling operator (and is made
\* of the characters the model of eval covers)
Malformed(expr, table) ==
    LET text == EvalText(expr, table)
        tk == JsTokens(text)
    IN /\ tk.bad # "unsupported"
       /\ \/ Trim(text) = <<>>
          \/ Unbalanced(text)
          \/ tk.bad = "" /\ Dangling(tk.toks)

C10_TableChangesOnlyWhenIncluding ==
    [][/\ (step' \in {"define", "undef"} /\ ~AllIncluding)
            => (defines' = defines /\ pc' = "running")
       /\ (step' = "undef" /\ ~Has(defines, UndefNameMatch(DirectiveLine(line'))))
            => (defines' = defines /\ resultLines' = resultLines /\ pc' = "running")]_vars

\* "#undef A" was read inside an excluded branch and A is still defined
C10_Witness ==
    /\ step = "undef"
    /\ pc = "running"
    /\ ~AllIncluding
    /\ UndefNameMatch(DirectiveLine(line)) = NameA
    /\ Has(defines, NameA)

\* C16: for every macro table and every line in which no macro name of the
\* table occurs, expandMacros returns the line unchanged.
C16_NoMacroNameUnchanged ==
    (/\ call.fn = "expandMacros"
     /\ \A k \in 1..Len(defines) : IndexOf(line, defines[k].name) = 0) =>
        (call.out.err.kind = "none" /\ call.out.text = line)

\* a line read by the step that is now taken
ReadsNext(kind) == count' = count + 1 /\ step' = kind

\* C17: a "#" line that is none of the eight directives is appended to the
\* result exactly as written, unexpanded, when every frame includes, and is
\* dropped otherwise; the step changes neither the stack nor the macro table
\* and throws nothing.
C17_CustomLinePassedVerbatim ==
    [][ReadsNext("custom") =>
          /\ resultLines' = IF AllIncluding THEN Append(resultLines, line')
                            ELSE resultLines
          /\ conditionalStack' = conditionalStack
          /\ defines' = defines
          /\ pc' = "running"]_vars

\* "#pragma A" was read with A defined while every frame includes: the line
\* is the last result line, with A still in it
C17_Witness ==
    /\ step = "custom"
    /\ AllIncluding
    /\ Has(defines, NameA)
    /\ Len(resultLines) > 0
    /\ resultLines[Len(resultLines)] = line
    /\ \E i \in 1..Len(line) : WordAt(line, NameA, i)

\* C19: a frame that includes has only including frames beneath it, so the
\* top frame's flag equals the conjunction of the flags of the whole stack.
C19_IncludingFramesFormPrefix ==
    /\ \A k \in 1..Len(conditionalStack) :
           conditionalStack[k].including =>
               \A j \in 1..(k - 1) : conditionalStack[j].including
    /\ Len(conditionalStack) > 0 =>
           (Top(conditionalStack).including <=> AllIncluding)

\* an #else whose chain had no branch taken was read beneath an excluding
\* frame: the top frame stays excluding
C19_Witness ==
    /\ step = "else"
    /\ pc = "running"
    /\ Len(conditionalStack) > 1
    /\ ~conditionalStack[Len(conditionalStack) - 1].including
    /\ ~chain[Len(chain)].prior
    /\ ~Top(conditionalStack).including

\* the directive lines of a kind
LinesOf(kind) == {l \in Lines : LineKind(l) = kind}

\* the handler of an #if or #elif, by the kind of the directive
BranchHandler(kind, d, stack, table) ==
    IF kind = "if" THEN OpenHandler("if", d, stack, table)
    ELSE ElifHandler(d, stack, table)

\* an enclosing frame excludes, or the directive is an #elif after a branch
\* of its chain that was taken
NotToBeEvaluated(kind) ==
    IF kind = "if" THEN ~AllIncluding
    ELSE /\ Len(conditionalStack) > 0
         /\ \/ \E k \in 1..(Len(conditionalStack) - 1) : ~conditionalStack[k].including
            \/ Top(conditionalStack).hasBeenTrue

\* C20: an #if read while an enclosing frame excludes, and an #elif read
\* while an enclosing frame excludes or after a taken branch of its chain,
\* only updates the stack: the step is the one the handler takes for every
\* other expression (malformed ones too) and every other macro table, it
\* never throws an evaluation Error, and the table and the result lines
\* stay as they were.
C20_ConditionNotEvaluatedWhenExcluded ==
    [][\A kind \in {"if", "elif"} :
          (ReadsNext(kind) /\ NotToBeEvaluated(kind)) =>
              /\ \A l \in LinesOf(kind), t \in InitialTables :
                     LET r == BranchHandler(kind, DirectiveLine(l),
                                            conditionalStack, t)
                     IN conditionalStack' = r.stack /\ error' = r.err
              /\ error'.kind = "none" => ~Top(conditionalStack').including
              /\ defines' = defines
              /\ resultLines' = resultLines]_vars

\* an #if whose condition holds by itself was read beneath an excluding
\* frame and pushed an excluding frame
C20_Witness ==
    /\ step = "if"
    /\ pc = "running"
    /\ Len(conditionalStack) > 1
    /\ ~conditionalStack[Len(conditionalStack) - 1].including
    /\ chain[Len(chain)].cond
    /\ ~Top(conditionalStack).including

(***************************************************************************)
(* tokenizeWgsl(code): the tokenizer of the prettifier and the obfuscator. *)
(* Each regular expression of the source is anchored at the start of the   *)
(* remaining text; it is modelled by the length of its match at position   *)
(* i, 0 if it does not match there.                                        *)
(***************************************************************************)
\* the length of the longest run that starts at i of characters of a class
\* (inside) or of characters outside it (~inside)
Span(s, i, class, inside) ==
    IF i > Len(s) THEN 0
    ELSE Min({p \in i..(Len(s) + 1) :
                 p = Len(s) + 1 \/ (s[p] \in class) # inside}) - i

CharAt(s, i) == IF i >= 1 /\ i <= Len(s) THEN s[i] ELSE ""

\* /^\/\/.*|^\/\*[\s\S]*?\*\//   ("." stops at a line end, "*?" at the
\* first "*/" after the opening)
CommentLen(s, i) ==
    LET close == IndexFrom(s, <<"*", "/">>, i + 2)
    IN IF MatchAt(s, <<"/", "/">>, i) THEN 2 + Span(s, i + 2, {"\n", "\r"}, FALSE)
       ELSE IF MatchAt(s, <<"/", "*">>, i) /\ close > 0 THEN close + 2 - i
       ELSE 0

\* /^#(\w+)\s+"([^"]+)"/ : [len, word, name], len = 0 if there is no match
\* (\s: line ends are white space too)
DirectiveMatch(s, i) ==
    LET w == Span(s, i + 1, WordChar, TRUE)
        sp == Span(s, i + 1 + w, Space \cup {"\n", "\r"}, TRUE)
        q == i + 1 + w + sp
        body == Span(s, q + 1, {"\""}, FALSE)
    IN IF /\ CharAt(s, i) = "#" /\ w > 0 /\ sp > 0
          /\ CharAt(s, q) = "\"" /\ body > 0 /\ CharAt(s, q + 1 + body) = "\""
       THEN [len |-> q + body + 2 - i, word |-> SubSeq(s, i + 1, i + w),
             name |-> SubSeq(s, q + 1, q + body)]
       ELSE [len |-> 0, word |-> <<>>, name |-> <<>>]

\* /^@(?:[a-zA-Z_][a-zA-Z0-9_]*)(?:\((?:[^()]+|\([^()]*\))*\))?/
\* Step reads one character of (?:[^()]+|\([^()]*\))*\) after the opening
\* parenthesis: st = [inner, end, fail]; inner: inside a nested pair; end:
\* the position of the closing parenthesis, 0 while it is not reached
AttributeLen(s, i) ==
    LET n == IdentLenAt(s, i + 1)
        p == i + 1 + n
        Step(st, k) ==
            IF st.end > 0 \/ st.fail THEN st
            ELSE IF s[k] = "(" THEN IF st.inner THEN [st EXCEPT !.fail = TRUE]
                                    ELSE [st EXCEPT !.inner = TRUE]
            ELSE IF s[k] = ")" THEN IF st.inner THEN [st EXCEPT !.inner = FALSE]
                                    ELSE [st EXCEPT !.end = k]
            ELSE st
        Closed(st) == IF st.end > 0 THEN st.end + 1 - i ELSE 1 + n
    IN IF CharAt(s, i) # "@" \/ n = 0 THEN 0
       ELSE IF CharAt(s, p) # "(" THEN 1 + n
       ELSE Closed(Iterate(Step, [inner |-> FALSE, end |-> 0, fail |-> FALSE],
                           p + 1, Len(s)))

\* /^"[^"]*"/
StringLen(s, i) ==
    LET body == Span(s, i + 1, {"\""}, FALSE)
    IN IF CharAt(s, i) = "\"" /\ CharAt(s, i + 1 + body) = "\"" THEN body + 2 ELSE 0

\* /^(?:0[xX][0-9a-fA-F]+[uif]?|[0-9]+(\.[0-9]*)?[uif]?|[0-9]*\.[0-9]+[f]?)/
\* the first alternative that matches is taken
NumberLen(s, i) ==
    LET hex == Span(s, i + 2,
                    Digit \cup {"a","b","c","d","e","f","A","B","C","D","E","F"}, TRUE)
        int == Span(s, i, Digit, TRUE)
        frac == IF CharAt(s, i + int) = "."
                THEN 1 + Span(s, i + int + 1, Digit, TRUE) ELSE 0
        Suffix(p, class) == IF CharAt(s, p) \in class THEN 1 ELSE 0
    IN IF CharAt(s, i) = "0" /\ CharAt(s, i + 1) \in {"x", "X"} /\ hex > 0
           THEN 2 + hex + Suffix(i + 2 + hex, {"u", "i", "f"})
       ELSE IF int > 0
           THEN int + frac + Suffix(i + int + frac, {"u", "i", "f"})
       ELSE IF frac > 1 THEN frac + Suffix(i + frac, {"f"})
       ELSE 0

\* /^(?:<<=|>>=|\+=|-=|\*=|\/=|%=|&=|\|=|\^=|<<|>>|<=|>=|==|!=|&&|\|\||->|
\*      [-+*/%&|^~!<>=(){}[\],;:.@])/
\* the alternatives are tried in the order of the pattern
OperatorLen(s, i) ==
    LET long == << <<"<","<","=">>, <<">",">","=">>, <<"+","=">>, <<"-","=">>,
                   <<"*","=">>, <<"/","=">>, <<"%","=">>, <<"&","=">>,
                   <<"|","=">>, <<"^","=">>, <<"<","<">>, <<">",">">>,
                   <<"<","=">>, <<">","=">>, <<"=","=">>, <<"!","=">>,
                   <<"&","&">>, <<"|","|">>, <<"-",">">> >>
        hits == {k \in 1..Len(long) : MatchAt(s, long[k], i)}
    IN IF hits # {} THEN Len(long[Min(hits)])
       ELSE IF CharAt(s, i) \in {"-","+","*","/","%","&","|","^","~","!","<",">",
                                 "=","(",")","{","}","[","]",",",";",":",".","@"}
           THEN 1
       ELSE 0

\* The token, white space or unknown character that the loop finds at i:
\* [type, len].  wgslKeywords and wgslBuiltins are the words of those sets
\* that the texts checked here are written with.
TokenAt(s, i) ==
    LET wgslKeywords ==
            { <<"f","n">>, <<"l","e","t">>, <<"v","a","r">>, <<"c","o","n","s","t">>,
              <<"s","t","r","u","c","t">>, <<"r","e","t","u","r","n">> }
        wgslBuiltins ==
            { <<"f","3","2">>, <<"i","3","2">>, <<"v","e","c","2">>,
              <<"v","e","c","4">> }
        value == SubSeq(s, i, i + IdentLenAt(s, i) - 1)
        ws == Span(s, i, Space \cup {"\n", "\r"}, TRUE)
    IN IF ws > 0 THEN [type |-> "whitespace", len |-> ws]
       ELSE IF CommentLen(s, i) > 0 THEN [type |-> "comment", len |-> CommentLen(s, i)]
       ELSE IF DirectiveMatch(s, i).len > 0
           THEN [type |-> "directive", len |-> DirectiveMatch(s, i).len]
       ELSE IF AttributeLen(s, i) > 0
           THEN [type |-> "attribute", len |-> AttributeLen(s, i)]
       ELSE IF StringLen(s, i) > 0 THEN [type |-> "string", len |-> StringLen(s, i)]
       ELSE IF NumberLen(s, i) > 0 THEN [type |-> "number", len |-> NumberLen(s, i)]
       ELSE IF IdentLenAt(s, i) > 0
           THEN [type |-> IF value \in wgslKeywords THEN "keyword"
                          ELSE IF value \in wgslBuiltins THEN "builtin"
                          ELSE "identifier",
                 len |-> IdentLenAt(s, i)]
       ELSE IF OperatorLen(s, i) > 0
           THEN [type |-> "operator", len |-> OperatorLen(s, i)]
       ELSE [type |-> "unknown", len |-> 1]

\* a faulty variant of a turn of the loop: a character that no pattern
\* matches is stepped over
WgslStepSkipping(st, code) ==
    LET m == TokenAt(code, st.index)
    IN IF st.threw \/ st.index > Len(code) THEN st
       ELSE IF m.type \in {"whitespace", "unknown"}
           THEN [st EXCEPT !.index = @ + m.len]
       ELSE [st EXCEPT !.index = @ + m.len,
                       !.tokens = Append(@, [type |-> m.type,
                                             value |-> SubSeq(code, st.index,
                                                              st.index + m.len - 1)])]

\* One turn of "while (index < code.length)": st = [index, tokens, threw];
\* index is the 1-based position of the next character
WgslStep(st, code) ==
    LET m == TokenAt(code, st.index)
    IN IF st.threw \/ st.index > Len(code) THEN st
       ELSE IF m.type = "whitespace" THEN [st EXCEPT !.index = @ + m.len]
       ELSE IF m.type = "unknown"
           THEN [index |-> st.index + 1,
                 tokens |-> Append(st.tokens, [type |-> "unknown",
                                               value |-> <<code[st.index]>>]),
                 threw |-> TRUE]
       ELSE [st EXCEPT !.index = @ + m.len,
                       !.tokens = Append(@, [type |-> m.type,
                                             value |-> SubSeq(code, st.index,
                                                              st.index + m.len - 1)])]

\* tokenizeWgsl(code): [tokens, threw, index, pending].  The loop is followed
\* for one turn per character and one more; pending tells that it would
\* still go on.  When threw, tokens is the local array at the throw and
\* nothing is returned.
TokenizeWgsl(code) ==
    LET AtEnd(st) == [tokens |-> st.tokens, threw |-> st.threw, index |-> st.index,
                      pending |-> ~st.threw /\ st.index <= Len(code)]
    IN AtEnd(Iterate(LAMBDA st, k : WgslStep(st, code),
                     [index |-> 1, tokens |-> <<>>, threw |-> FALSE],
                     1, Len(code) + 1))

(***************************************************************************)
(* The obfuscator.  A Map<string, string> is the sequence of its entries   *)
(* [name, value] in insertion order.  The module variable index of         *)
(* next-name.ts is passed to and returned by every function that calls     *)
(* nextName().                                                             *)
(***************************************************************************)
\* a faulty variant of nextName: the counter is written in base 10
NextNameDecimal(idx) == <<"_">> \o NatToStr(idx)

\* the name that nextName() returns when the counter is idx (the counter is
\* idx + 1 after the call)
NextName(idx) ==
    LET chars == DigitChars \o <<"a","b","c","d","e","f","g","h","i","j","k","l","m",
                                 "n","o","p","q","r","s","t","u","v","w","x","y","z">>
        \* n.toString(36)
        RECURSIVE ToBase36(_)
        ToBase36(n) == IF n < 36 THEN <<chars[n + 1]>>
                       ELSE ToBase36(n \div 36) \o <<chars[(n % 36) + 1]>>
    IN <<"_">> \o ToBase36(idx)

\* a faulty variant of resetNameIndex: the counter is left as it is
ResetSkipped(idx) == idx

\* the counter after resetNameIndex()
ResetNameIndex(idx) == 0

\* if (!map.has(name)) map.set(name, nextName()): [map, index]
Register(map, name, idx) ==
    IF Has(map, name) THEN [map |-> map, index |-> idx]
    ELSE [map |-> Append(map, [name |-> name, value |-> NextName(idx)]),
          index |-> idx + 1]

\* swizzles.has(name): every text of 1 to 4 of the eight components
IsSwizzle(name) ==
    /\ Len(name) \in 1..4
    /\ \A k \in 1..Len(name) : name[k] \in {"x","y","z","w","r","g","b","a"}

\* a faulty variant of isPotentialSwizzle: no name is taken for a swizzle
NeverSwizzle(name) == FALSE

\* isPotentialSwizzle(name)
IsPotentialSwizzle(name) ==
    IF Len(name) < 1 \/ Len(name) > 4 THEN FALSE
    ELSE \A k \in 1..Len(name) : IsSwizzle(<<name[k]>>)

\* collectStructNames(tokens): [map, index].  Step reads one token:
\* st = [map, index, mode]; mode "out": the for loop looks at the token;
\* "skip": the token after "struct", stepped over by i += 2; "in": the
\* while loop looks at it
CollectStructNames(tokens, idx) ==
    LET Step(st, k) ==
            LET t == tokens[k]
                reg == Register(st.map, t.value, st.index)
            IN IF st.mode = "out"
                   THEN IF t.type = "keyword" /\ t.value = <<"s","t","r","u","c","t">>
                        THEN [st EXCEPT !.mode = "skip"] ELSE st
               ELSE IF st.mode = "skip" THEN [st EXCEPT !.mode = "in"]
               ELSE IF t.value = <<"}">> THEN [st EXCEPT !.mode = "out"]
               ELSE IF /\ t.type = "identifier"
                       /\ k + 1 <= Len(tokens)
                       /\ tokens[k + 1].value = <<":">>
                       /\ ~IsPotentialSwizzle(t.value)
                   THEN [map |-> reg.map, index |-> reg.index, mode |-> "in"]
               ELSE st
        AtEnd(st) == [map |-> st.map, index |-> st.index]
    IN AtEnd(Iterate(Step, [map |-> <<>>, index |-> idx, mode |-> "out"],
                     1, Len(tokens)))

\* collectDeclaredIdentifiersAndEntryPoints(tokens):
\* [identifierMap, bindingMap, index].  Step reads one token:
\* st = [identifierMap, bindingMap, entryPointNames, index, mode].  mode
\* "out": the for loop looks at the token; "name": the declared name, stepped
\* over by i++; "fnname": the same for a function, whose parameter list is
\* entered if "(" follows; "paren": that "("; "params": the while loop looks
\* at the token; "colon": the ":" after a parameter, stepped over
CollectDeclaredIdentifiersAndEntryPoints(tokens, idx) ==
    LET Directive(st, value) ==
            LET m == DirectiveMatch(value, 1)
                reg == Register(st.identifierMap, m.name, st.index)
            IN IF m.len = 0 THEN st
               ELSE IF m.word = <<"b","i","n","d","i","n","g">>
                   THEN [st EXCEPT
                            !.identifierMap = reg.map,
                            !.index = reg.index,
                            !.bindingMap =
                                IF Has(@, m.name) THEN @
                                ELSE Append(@, [name |-> m.name,
                                                value |-> Get(reg.map, m.name).value])]
               ELSE IF m.word = <<"e","n","t","r","y","p","o","i","n","t">>
                   THEN [st EXCEPT !.entryPointNames = @ \cup {m.name}]
               ELSE st
        Step(st, k) ==
            LET t == tokens[k]
                declares == k + 1 <= Len(tokens) /\ tokens[k + 1].type = "identifier"
                next == IF declares THEN tokens[k + 1].value ELSE <<>>
                reg == Register(st.identifierMap, next, st.index)
                param == Register(st.identifierMap, t.value, st.index)
                Registered(r, mode) == [st EXCEPT !.identifierMap = r.map,
                                                  !.index = r.index, !.mode = mode]
            IN IF st.mode = "out"
                   THEN IF t.type = "directive" THEN Directive(st, t.value)
                        ELSE IF t.type # "keyword" THEN st
                        ELSE IF t.value = <<"f","n">> /\ declares
                            THEN IF next \in st.entryPointNames
                                    \/ (st.entryPointNames = {}
                                        /\ next = <<"m","a","i","n">>)
                                 THEN [st EXCEPT !.mode = "fnname"]
                                 ELSE Registered(reg, "fnname")
                        ELSE IF t.value \in {<<"l","e","t">>, <<"v","a","r">>,
                                             <<"c","o","n","s","t">>} /\ declares
                            THEN Registered(reg, "name")
                        ELSE IF t.value = <<"s","t","r","u","c","t">> /\ declares
                            THEN Registered(reg, "name")
                        ELSE st
               ELSE IF st.mode = "name" THEN [st EXCEPT !.mode = "out"]
               ELSE IF st.mode = "fnname"
                   THEN IF k + 1 <= Len(tokens) /\ tokens[k + 1].value = <<"(">>
                        THEN [st EXCEPT !.mode = "paren"]
                        ELSE [st EXCEPT !.mode = "out"]
               ELSE IF st.mode = "paren" THEN [st EXCEPT !.mode = "params"]
               ELSE IF st.mode = "colon" THEN [st EXCEPT !.mode = "params"]
               ELSE IF t.value = <<")">> THEN [st EXCEPT !.mode = "out"]
               ELSE IF /\ t.type = "identifier"
                       /\ k + 1 <= Len(tokens)
                       /\ tokens[k + 1].value = <<":">>
                   THEN Registered(param, "colon")
               ELSE st
        AtEnd(st) == [identifierMap |-> st.identifierMap,
                      bindingMap |-> st.bindingMap, index |-> st.index]
    IN AtEnd(Iterate(Step, [identifierMap |-> <<>>, bindingMap |-> <<>>,
                            entryPointNames |-> {}, index |-> idx, mode |-> "out"],
                     1, Len(tokens)))

\* replaceIdentifiers(tokens, identifierMap, structMemberMap) of the
\* obfuscator.  Step reads one token: st = [out, inStruct]
ReplaceTokens(tokens, identifierMap, structMemberMap) ==
    LET Renamed(map, value) ==
            IF Has(map, value) THEN Get(map, value).value ELSE value
        Step(st, k) ==
            LET t == tokens[k]
                Push(value) ==
                    [st EXCEPT !.out = Append(@, [type |-> t.type, value |-> value])]
            IN IF t.type = "keyword" /\ t.value = <<"s","t","r","u","c","t">>
                   THEN [out |-> Append(st.out, t), inStruct |-> TRUE]
               ELSE IF st.inStruct /\ t.value = <<"}">>
                   THEN [out |-> Append(st.out, t), inStruct |-> FALSE]
               ELSE IF t.type = "identifier"
                   THEN IF /\ st.inStruct
                           /\ k + 1 <= Len(tokens)
                           /\ tokens[k + 1].value = <<":">>
                            THEN Push(Renamed(structMemberMap, t.value))
                        ELSE IF k > 1 /\ tokens[k - 1].value = <<".">>
                            THEN IF Has(structMemberMap, t.value) /\ ~IsSwizzle(t.value)
                                 THEN Push(Get(structMemberMap, t.value).value)
                                 ELSE Push(t.value)
                        ELSE Push(Renamed(identifierMap, t.value))
               ELSE IF t.type # "directive" THEN Push(t.value)
               ELSE st
    IN Iterate(Step, [out |-> <<>>, inStruct |-> FALSE], 1, Len(tokens)).out

\* reconstructObfuscatedCode(obfuscatedTokens, tokens).  nextToken is
\* obfuscatedTokens[i + 1] when i + 1 < tokens.length, and that is undefined
\* past the end of obfuscatedTokens
ReconstructObfuscatedCode(obfuscatedTokens, tokens) ==
    LET Step(text, k) ==
            LET t == obfuscatedTokens[k]
                hasNext == k + 1 <= Len(tokens) /\ k + 1 <= Len(obfuscatedTokens)
            IN IF /\ hasNext
                  /\ t.type \in {"keyword", "identifier", "attribute"}
                  /\ obfuscatedTokens[k + 1].type # "operator"
               THEN text \o t.value \o <<" ">>
               ELSE text \o t.value
    IN Iterate(Step, <<>>, 1, Len(obfuscatedTokens))

\* a faulty variant of the binding comments: the original name is written
\* in the place of the generated one
RECURSIVE CommentsWithoutNewNames(_)
CommentsWithoutNewNames(bindingMap) ==
    IF bindingMap = <<>> THEN <<>>
    ELSE <<"/","/","#","!","b","i","n","d","i","n","g"," ">> \o bindingMap[1].name
         \o <<" ">> \o bindingMap[1].name \o <<"\n">>
         \o CommentsWithoutNewNames(Tail(bindingMap))

\* the binding comments, joined by "\n" and followed by "\n"
RECURSIVE BindingComments(_)
BindingComments(bindingMap) ==
    IF bindingMap = <<>> THEN <<>>
    ELSE <<"/","/","#","!","b","i","n","d","i","n","g"," ">> \o bindingMap[1].name
         \o <<" ">> \o bindingMap[1].value \o <<"\n">>
         \o BindingComments(Tail(bindingMap))

\* obfuscate(code) called when the counter is idx: [out, threw, index,
\* tokens, obfuscatedTokens, structMemberMap, identifierMap, bindingMap]; out
\* is the text returned, and the other fields are the locals and the counter
\* at the end.  When tokenizeWgsl throws, so does obfuscate.
Obfuscate(code, idx) ==
    LET Maps(tokens, structs, declared) ==
            [tokens |-> tokens,
             structMemberMap |-> structs.map,
             identifierMap |-> declared.identifierMap,
             bindingMap |-> declared.bindingMap,
             index |-> declared.index,
             obfuscatedTokens |-> ReplaceTokens(tokens, declared.identifierMap,
                                                structs.map)]
        Collected(tokens, structs) ==
            Maps(tokens, structs,
                 CollectDeclaredIdentifiersAndEntryPoints(tokens, structs.index))
        Passes(tokens) ==
            Collected(tokens, CollectStructNames(tokens, ResetNameIndex(idx)))
        Returned(m) ==
            [out |-> BindingComments(m.bindingMap)
                     \o ReconstructObfuscatedCode(m.obfuscatedTokens, m.tokens),
             threw |-> FALSE, index |-> m.index, tokens |-> m.tokens,
             obfuscatedTokens |-> m.obfuscatedTokens,
             structMemberMap |-> m.structMemberMap,
             identifierMap |-> m.identifierMap, bindingMap |-> m.bindingMap]
        Tokenized(tk) ==
            IF tk.threw
            THEN [out |-> <<>>, threw |-> TRUE, index |-> ResetNameIndex(idx),
                  tokens |-> <<>>, obfuscatedTokens |-> <<>>,
                  structMemberMap |-> <<>>, identifierMap |-> <<>>,
                  bindingMap |-> <<>>]
            ELSE Returned(Passes(SelectSeq(tk.tokens,
                                           LAMBDA t : t.type # "comment")))
    IN Tokenized(TokenizeWgsl(code))

(***************************************************************************)
(* The obfuscation module in use: calls of obfuscate, and direct calls of  *)
(* nextName, collectStructNames and                                        *)
(* collectDeclaredIdentifiersAndEntryPoints, in any order.  Every function *)
(* is synchronous, so a call runs to its end before the next one starts.   *)
(***************************************************************************)
\* the direct calls stop when the counter is MaxIndex
MaxIndex == 12

Programs ==
    { <<"s","t","r","u","c","t"," ","S","{","x","y",":","f","3","2",",","k",":","f","3","2","}","l","e","t"," ","x","y","=","v",".","x","y","+","s",".","k",";">>,
      <<"s","t","r","u","c","t"," ","S","{","k",":","f","3","2","}","l","e","t"," ","k","=","s",".","k",";","l","e","t"," ","r","=","k",".","r",".","k",";">>,
      <<"#","e","n","t","r","y","p","o","i","n","t"," ","\"","k","\"","\n","f","n"," ","k","(",")","{","}","f","n"," ","h","(",")","{","k","(",")",";","}">>,
      <<"f","n"," ","k","(",")","{","}","f","n"," ","h","(",")","{","}","\n","#","e","n","t","r","y","p","o","i","n","t"," ","\"","k","\"">>,
      <<"f","n"," ","m","a","i","n","(",")","{","}","f","n"," ","h","(","a",":","i","3","2",")","{","m","a","i","n","(","a",")",";","}">>,
      <<"#","b","i","n","d","i","n","g"," ","\"","d","\"","\n","#","b","i","n","d","i","n","g"," ","\"","b","\"","\n","l","e","t"," ","c","=","d","+","b",";">>,
      <<"#","b","i","n","d","i","n","g"," ","\"","d","\"","\n","l","e","t"," ","d","=","1",";","\n","#","b","i","n","d","i","n","g"," ","\"","d","\"">>,
      <<"#","e","n","t","r","y","p","o","i","n","t"," ","\"","m","\"","\n","#","b","i","n","d","i","n","g"," ","\"","d","\"","\n","@","c"," ","f","n"," ","m","(",")","{","d",";","}">>,
      <<"s","t","r","u","c","t"," ","T","{","c",":","i",",","d",":","i",",","e",":","i",",","f",":","i",",","h",":","i",",","j",":","i",",","k",":","i",",","l",":","i",",","m",":","i",",","n",":","i",",","o",":","i","}">>,
      <<"l","e","t"," ","x","=","1",";","/","/","c","\n","l","e","t"," ","y","=","$">>,
      <<"/","*","c","*","/","l","e","t"," ","a","=","0","x","1","f",";","r","e","t","u","r","n"," ","a">>,
      <<"l","e","t"," ","x","=","_","0",";">>,
      <<"v","a","r"," ","a",":","v","e","c","2","<","f","3","2",">"," ","=","b",";">> }

\* the values of a Map in insertion order
MapValues(map) == [k \in 1..Len(map) |-> map[k].value]

ObfuscateCall(code) ==
    LET Done(r) ==
            /\ index' = r.index
            /\ run' = [fn |-> "obfuscate", code |-> code, out |-> r.out,
                       threw |-> r.threw,
                       names |-> MapValues(r.structMemberMap)
                                 \o MapValues(r.identifierMap),
                       before |-> index, tokens |-> r.tokens,
                       obfuscatedTokens |-> r.obfuscatedTokens,
                       bindingMap |-> r.bindingMap]
            /\ first' = IF ~first.set
                        THEN [set |-> TRUE, code |-> code, out |-> r.out,
                              threw |-> r.threw, between |-> FALSE]
                        ELSE [first EXCEPT !.between = @ \/ code # first.code]
    IN /\ Done(Obfuscate(code, index))
       /\ UNCHANGED <<conditionalStack, defines, resultLines, pc, error, count,
                      line, step, chain, open, captured, call>>

NextNameCall ==
    /\ index < MaxIndex
    /\ index' = index + 1
    /\ run' = [NoRun EXCEPT !.fn = "nextName", !.out = NextName(index),
                            !.names = <<NextName(index)>>, !.before = index]
    /\ first' = [first EXCEPT !.between = first.set]
    /\ UNCHANGED <<conditionalStack, defines, resultLines, pc, error, count,
                   line, step, chain, open, captured, call>>

\* a direct call of the collector with the tokens of a struct declaration
CollectStructNamesCall ==
    LET code == <<"s","t","r","u","c","t"," ","S","{","k",":","i",",","x",":","i","}">>
        Done(r) ==
            /\ r.index <= MaxIndex
            /\ index' = r.index
            /\ run' = [NoRun EXCEPT !.fn = "collectStructNames", !.code = code,
                                    !.names = MapValues(r.map), !.before = index]
    IN /\ Done(CollectStructNames(TokenizeWgsl(code).tokens, index))
       /\ first' = [first EXCEPT !.between = first.set]
       /\ UNCHANGED <<conditionalStack, defines, resultLines, pc, error, count,
                      line, step, chain, open, captured, call>>

\* a direct call of the collector with the tokens of a struct declaration
\* or of a function declaration
CollectDeclaredCall ==
    \E code \in { <<"s","t","r","u","c","t"," ","S","{","k",":","i",",","x",":","i","}">>,
                  <<"f","n"," ","h","(","a",":","i",")","{","}">> } :
        LET Done(r) ==
                /\ r.index <= MaxIndex
                /\ index' = r.index
                /\ run' = [NoRun EXCEPT !.fn = "collectDeclaredIdentifiersAndEntryPoints",
                                        !.code = code,
                                        !.names = MapValues(r.identifierMap),
                                        !.before = index]
        IN /\ Done(CollectDeclaredIdentifiersAndEntryPoints(TokenizeWgsl(code).tokens,
                                                            index))
           /\ first' = [first EXCEPT !.between = first.set]
           /\ UNCHANGED <<conditionalStack, defines, resultLines, pc, error, count,
                          line, step, chain, open, captured, call>>

ObfNext ==
    \/ \E code \in Programs : ObfuscateCall(code)
    \/ NextNameCall
    \/ CollectStructNamesCall
    \/ CollectDeclaredCall

\* the modules are loaded, nothing is being preprocessed and the counter is 0
ObfInit ==
    /\ conditionalStack = <<>>
    /\ defines = <<>>
    /\ resultLines = <<>>
    /\ pc = "running"
    /\ error = NoError
    /\ count = 0
    /\ line = <<>>
    /\ step = "start"
    /\ chain = <<>>
    /\ open = 0
    /\ captured = {}
    /\ call = NoCall
    /\ index = 0
    /\ run = NoRun
    /\ first = [set |-> FALSE, code |-> <<>>, out |-> <<>>, threw |-> FALSE,
                between |-> FALSE]

ObfSpec == ObfInit /\ [][ObfNext]_vars

(***************************************************************************)
(* tokenizeWgsl applied to one text                                        *)
(***************************************************************************)
Sources ==
    { <<"a","1">>,
      <<"0","x","1","F","u">>,
      <<"1",".","5","f">>,
      <<".","5">>,
      <<"\"","s","\"">>,
      <<"\"","s">>,
      <<"/","/","c","\n">>,
      <<"/","*","c","*","/">>,
      <<"/","*">>,
      <<"@","a","(","(","1",")",")">>,
      <<"@","a","(","(","(","1",")",")",")">>,
      <<"#","b"," ","\"","n","\"">>,
      <<"<","<","=">>,
      <<"$">>,
      <<"a","1","a","1">>,
      <<"a","1","0","x","1","F","u">>,
      <<"a","1","1",".","5","f">>,
      <<"a","1",".","5">>,
      <<"a","1","\"","s","\"">>,
      <<"a","1","\"","s">>,
      <<"a","1","/","/","c","\n">>,
      <<"a","1","/","*","c","*","/">>,
      <<"a","1","/","*">>,
      <<"a","1","@","a","(","(","1",")",")">>,
      <<"a","1","@","a","(","(","(","1",")",")",")">>,
      <<"a","1","#","b"," ","\"","n","\"">>,
      <<"a","1","<","<","=">>,
      <<"a","1","$">>,
      <<"0","x","1","F","u","a","1">>,
      <<"0","x","1","F","u","0","x","1","F","u">>,
      <<"0","x","1","F","u","1",".","5","f">>,
      <<"0","x","1","F","u",".","5">>,
      <<"0","x","1","F","u","\"","s","\"">>,
      <<"0","x","1","F","u","\"","s">>,
      <<"0","x","1","F","u","/","/","c","\n">>,
      <<"0","x","1","F","u","/","*","c","*","/">>,
      <<"0","x","1","F","u","/","*">>,
      <<"0","x","1","F","u","@","a","(","(","1",")",")">>,
      <<"0","x","1","F","u","@","a","(","(","(","1",")",")",")">>,
      <<"0","x","1","F","u","#","b"," ","\"","n","\"">>,
      <<"0","x","1","F","u","<","<","=">>,
      <<"0","x","1","F","u","$">>,
      <<"1",".","5","f","a","1">>,
      <<"1",".","5","f","0","x","1","F","u">>,
      <<"1",".","5","f","1",".","5","f">>,
      <<"1",".","5","f",".","5">>,
      <<"1",".","5","f","\"","s","\"">>,
      <<"1",".","5","f","\"","s">>,
      <<"1",".","5","f","/","/","c","\n">>,
      <<"1",".","5","f","/","*","c","*","/">>,
      <<"1",".","5","f","/","*">>,
      <<"1",".","5","f","@","a","(","(","1",")",")">>,
      <<"1",".","5","f","@","a","(","(","(","1",")",")",")">>,
      <<"1",".","5","f","#","b"," ","\"","n","\"">>,
      <<"1",".","5","f","<","<","=">>,
      <<"1",".","5","f","$">>,
      <<".","5","a","1">>,
      <<".","5","0","x","1","F","u">>,
      <<".","5","1",".","5","f">>,
      <<".","5",".","5">>,
      <<".","5","\"","s","\"">>,
      <<".","5","\"","s">>,
      <<".","5","/","/","c","\n">>,
      <<".","5","/","*","c","*","/">>,
      <<".","5","/","*">>,
      <<".","5","@","a","(","(","1",")",")">>,
      <<".","5","@","a","(","(","(","1",")",")",")">>,
      <<".","5","#","b"," ","\"","n","\"">>,
      <<".","5","<","<","=">>,
      <<".","5","$">>,
      <<"\"","s","\"","a","1">>,
      <<"\"","s","\"","0","x","1","F","u">>,
      <<"\"","s","\"","1",".","5","f">>,
      <<"\"","s","\"",".","5">>,
      <<"\"","s","\"","\"","s","\"">>,
      <<"\"","s","\"","\"","s">>,
      <<"\"","s","\"","/","/","c","\n">>,
      <<"\"","s","\"","/","*","c","*","/">>,
      <<"\"","s","\"","/","*">>,
      <<"\"","s","\"","@","a","(","(","1",")",")">>,
      <<"\"","s","\"","@","a","(","(","(","1",")",")",")">>,
      <<"\"","s","\"","#","b"," ","\"","n","\"">>,
      <<"\"","s","\"","<","<","=">>,
      <<"\"","s","\"","$">>,
      <<"\"","s","a","1">>,
      <<"\"","s","0","x","1","F","u">>,
      <<"\"","s","1",".","5","f">>,
      <<"\"","s",".","5">>,
      <<"\"","s","\"","s","\"">>,
      <<"\"","s","\"","s">>,
      <<"\"","s","/","/","c","\n">>,
      <<"\"","s","/","*","c","*","/">>,
      <<"\"","s","/","*">>,
      <<"\"","s","@","a","(","(","1",")",")">>,
      <<"\"","s","@","a","(","(","(","1",")",")",")">>,
      <<"\"","s","#","b"," ","\"","n","\"">>,
      <<"\"","s","<","<","=">>,
      <<"\"","s","$">>,
      <<"/","/","c","\n","a","1">>,
      <<"/","/","c","\n","0","x","1","F","u">>,
      <<"/","/","c","\n","1",".","5","f">>,
      <<"/","/","c","\n",".","5">>,
      <<"/","/","c","\n","\"","s","\"">>,
      <<"/","/","c","\n","\"","s">>,
      <<"/","/","c","\n","/","/","c","\n">>,
      <<"/","/","c","\n","/","*","c","*","/">>,
      <<"/","/","c","\n","/","*">>,
      <<"/","/","c","\n","@","a","(","(","1",")",")">>,
      <<"/","/","c","\n","@","a","(","(","(","1",")",")",")">>,
      <<"/","/","c","\n","#","b"," ","\"","n","\"">>,
      <<"/","/","c","\n","<","<","=">>,
      <<"/","/","c","\n","$">>,
      <<"/","*","c","*","/","a","1">>,
      <<"/","*","c","*","/","0","x","1","F","u">>,
      <<"/","*","c","*","/","1",".","5","f">>,
      <<"/","*","c","*","/",".","5">>,
      <<"/","*","c","*","/","\"","s","\"">>,
      <<"/","*","c","*","/","\"","s">>,
      <<"/","*","c","*","/","/","/","c","\n">>,
      <<"/","*","c","*","/","/","*","c","*","/">>,
      <<"/","*","c","*","/","/","*">>,
      <<"/","*","c","*","/","@","a","(","(","1",")",")">>,
      <<"/","*","c","*","/","@","a","(","(","(","1",")",")",")">>,
      <<"/","*","c","*","/","#","b"," ","\"","n","\"">>,
      <<"/","*","c","*","/","<","<","=">>,
      <<"/","*","c","*","/","$">>,
      <<"/","*","a","1">>,
      <<"/","*","0","x","1","F","u">>,
      <<"/","*","1",".","5","f">>,
      <<"/","*",".","5">>,
      <<"/","*","\"","s","\"">>,
      <<"/","*","\"","s">>,
      <<"/","*","/","/","c","\n">>,
      <<"/","*","/","*","c","*","/">>,
      <<"/","*","/","*">>,
      <<"/","*","@","a","(","(","1",")",")">>,
      <<"/","*","@","a","(","(","(","1",")",")",")">>,
      <<"/","*","#","b"," ","\"","n","\"">>,
      <<"/","*","<","<","=">>,
      <<"/","*","$">>,
      <<"@","a","(","(","1",")",")","a","1">>,
      <<"@","a","(","(","1",")",")","0","x","1","F","u">>,
      <<"@","a","(","(","1",")",")","1",".","5","f">>,
      <<"@","a","(","(","1",")",")",".","5">>,
      <<"@","a","(","(","1",")",")","\"","s","\"">>,
      <<"@","a","(","(","1",")",")","\"","s">>,
      <<"@","a","(","(","1",")",")","/","/","c","\n">>,
      <<"@","a","(","(","1",")",")","/","*","c","*","/">>,
      <<"@","a","(","(","1",")",")","/","*">>,
      <<"@","a","(","(","1",")",")","@","a","(","(","1",")",")">>,
      <<"@","a","(","(","1",")",")","@","a","(","(","(","1",")",")",")">>,
      <<"@","a","(","(","1",")",")","#","b"," ","\"","n","\"">>,
      <<"@","a","(","(","1",")",")","<","<","=">>,
      <<"@","a","(","(","1",")",")","$">>,
      <<"@","a","(","(","(","1",")",")",")","a","1">>,
      <<"@","a","(","(","(","1",")",")",")","0","x","1","F","u">>,
      <<"@","a","(","(","(","1",")",")",")","1",".","5","f">>,
      <<"@","a","(","(","(","1",")",")",")",".","5">>,
      <<"@","a","(","(","(","1",")",")",")","\"","s","\"">>,
      <<"@","a","(","(","(","1",")",")",")","\"","s">>,
      <<"@","a","(","(","(","1",")",")",")","/","/","c","\n">>,
      <<"@","a","(","(","(","1",")",")",")","/","*","c","*","/">>,
      <<"@","a","(","(","(","1",")",")",")","/","*">>,
      <<"@","a","(","(","(","1",")",")",")","@","a","(","(","1",")",")">>,
      <<"@","a","(","(","(","1",")",")",")","@","a","(","(","(","1",")",")",")">>,
      <<"@","a","(","(","(","1",")",")",")","#","b"," ","\"","n","\"">>,
      <<"@","a","(","(","(","1",")",")",")","<","<","=">>,
      <<"@","a","(","(","(","1",")",")",")","$">>,
      <<"#","b"," ","\"","n","\"","a","1">>,
      <<"#","b"," ","\"","n","\"","0","x","1","F","u">>,
      <<"#","b"," ","\"","n","\"","1",".","5","f">>,
      <<"#","b"," ","\"","n","\"",".","5">>,
      <<"#","b"," ","\"","n","\"","\"","s","\"">>,
      <<"#","b"," ","\"","n","\"","\"","s">>,
      <<"#","b"," ","\"","n","\"","/","/","c","\n">>,
      <<"#","b"," ","\"","n","\"","/","*","c","*","/">>,
      <<"#","b"," ","\"","n","\"","/","*">>,
      <<"#","b"," ","\"","n","\"","@","a","(","(","1",")",")">>,
      <<"#","b"," ","\"","n","\"","@","a","(","(","(","1",")",")",")">>,
      <<"#","b"," ","\"","n","\"","#","b"," ","\"","n","\"">>,
      <<"#","b"," ","\"","n","\"","<","<","=">>,
      <<"#","b"," ","\"","n","\"","$">>,
      <<"<","<","=","a","1">>,
      <<"<","<","=","0","x","1","F","u">>,
      <<"<","<","=","1",".","5","f">>,
      <<"<","<","=",".","5">>,
      <<"<","<","=","\"","s","\"">>,
      <<"<","<","=","\"","s">>,
      <<"<","<","=","/","/","c","\n">>,
      <<"<","<","=","/","*","c","*","/">>,
      <<"<","<","=","/","*">>,
      <<"<","<","=","@","a","(","(","1",")",")">>,
      <<"<","<","=","@","a","(","(","(","1",")",")",")">>,
      <<"<","<","=","#","b"," ","\"","n","\"">>,
      <<"<","<","=","<","<","=">>,
      <<"<","<","=","$">>,
      <<"$","a","1">>,
      <<"$","0","x","1","F","u">>,
      <<"$","1",".","5","f">>,
      <<"$",".","5">>,
      <<"$","\"","s","\"">>,
      <<"$","\"","s">>,
      <<"$","/","/","c","\n">>,
      <<"$","/","*","c","*","/">>,
      <<"$","/","*">>,
      <<"$","@","a","(","(","1",")",")">>,
      <<"$","@","a","(","(","(","1",")",")",")">>,
      <<"$","#","b"," ","\"","n","\"">>,
      <<"$","<","<","=">>,
      <<"$","$">>,
      <<>> }

TokenInit ==
    /\ conditionalStack = <<>>
    /\ defines = <<>>
    /\ resultLines = <<>>
    /\ pc = "running"
    /\ error = NoError
    /\ count = 0
    /\ line \in Sources
    /\ step = "start"
    /\ chain = <<>>
    /\ open = 0
    /\ captured = {}
    /\ call = NoCall
    /\ index = 0
    /\ run = NoRun
    /\ first = [set |-> FALSE, code |-> <<>>, out |-> <<>>, threw |-> FALSE,
                between |-> FALSE]

TokenizeCall ==
    /\ call.fn = "none"
    /\ call' = [fn |-> "tokenizeWgsl", out |-> TokenizeWgsl(line)]
    /\ UNCHANGED <<conditionalStack, defines, resultLines, pc, error, count, line,
                   step, chain, open, captured, index, run, first>>

TokenSpec == TokenInit /\ [][TokenizeCall]_vars

(***************************************************************************)
(* Properties of the obfuscator and the tokenizer                          *)
(***************************************************************************)
\* obfuscate was the last call and returned
Obfuscated == run.fn = "obfuscate" /\ ~run.threw

\* the token of the output that stands for the k-th token of the source
\* (directive tokens have none)
OutAt(k) ==
    run.obfuscatedTokens[Cardinality({j \in 1..k : run.tokens[j].type # "directive"})]

KwStruct == <<"s","t","r","u","c","t">>

\* the k-th token of the source lies in the body of a struct declaration
InStructBody(k) ==
    \E s \in 1..(k - 1) :
        /\ run.tokens[s].type = "keyword" /\ run.tokens[s].value = KwStruct
        /\ \E b \in (s + 1)..(k - 1) : run.tokens[b].value = <<"{">>
        /\ \A j \in (s + 1)..(k - 1) : run.tokens[j].value # <<"}">>

\* the k-th token of the source declares a struct field
FieldDeclaration(k) ==
    /\ InStructBody(k)
    /\ k < Len(run.tokens)
    /\ run.tokens[k + 1].value = <<":">>

\* the k-th token of the source is a member access
MemberAccess(k) == k > 1 /\ run.tokens[k - 1].value = <<".">>

\* 1 to 4 characters taken from x, y, z, w, r, g, b, a
SwizzleShaped(text) ==
    /\ Len(text) >= 1
    /\ Len(text) <= 4
    /\ \A c \in 1..Len(text) : text[c] \in {"x","y","z","w","r","g","b","a"}

\* the identifier tokens of the source with that text
Occurrences(text) ==
    {k \in 1..Len(run.tokens) :
        run.tokens[k].type = "identifier" /\ run.tokens[k].value = text}

\* C11: a swizzle-shaped identifier that is a struct field declaration or a
\* member access keeps its text in the obfuscated output, whatever else the
\* same text is declared as.
C11_SwizzlesKept ==
    Obfuscated =>
        \A k \in 1..Len(run.tokens) :
            (/\ run.tokens[k].type = "identifier"
             /\ SwizzleShaped(run.tokens[k].value)
             /\ (FieldDeclaration(k) \/ MemberAccess(k)))
                => OutAt(k).value = run.tokens[k].value

\* a swizzle-shaped text is a struct field, a member access and a variable
\* of the source: the first two are kept and the variable is renamed
C11_Witness ==
    /\ Obfuscated
    /\ \E f, m, v \in 1..Len(run.tokens) :
           /\ run.tokens[f].type = "identifier"
           /\ SwizzleShaped(run.tokens[f].value)
           /\ run.tokens[m] = run.tokens[f]
           /\ run.tokens[v] = run.tokens[f]
           /\ FieldDeclaration(f)
           /\ MemberAccess(m)
           /\ ~FieldDeclaration(v) /\ ~MemberAccess(v)
           /\ OutAt(f) = run.tokens[f]
           /\ OutAt(m) = run.tokens[f]
           /\ OutAt(v) # run.tokens[f]

\* the names given by the #entrypoint directives of the source, "main" when
\* there is none
EntryPointNames ==
    LET given == {DirectiveMatch(run.tokens[k].value, 1).name :
                     k \in {j \in 1..Len(run.tokens) :
                               /\ run.tokens[j].type = "directive"
                               /\ DirectiveMatch(run.tokens[j].value, 1).word
                                      = <<"e","n","t","r","y","p","o","i","n","t">>}}
    IN IF given = {} THEN {<<"m","a","i","n">>} ELSE given

\* the k-th token of the source is the name in a function declaration
FunctionName(k) ==
    /\ k > 1
    /\ run.tokens[k].type = "identifier"
    /\ run.tokens[k - 1].type = "keyword"
    /\ run.tokens[k - 1].value = <<"f","n">>

\* C12: every entry-point name keeps its text at all of its occurrences in
\* the obfuscated output, wherever its directive stands, and every other
\* declared function gets a generated name.
C12_EntryPointsKept ==
    Obfuscated =>
        \A k \in 1..Len(run.tokens) :
            /\ (run.tokens[k].type = "identifier"
                /\ run.tokens[k].value \in EntryPointNames)
                   => OutAt(k).value = run.tokens[k].value
            /\ (FunctionName(k) /\ run.tokens[k].value \notin EntryPointNames)
                   => (/\ OutAt(k).value # run.tokens[k].value
                       /\ \E n \in 1..Len(run.names) : run.names[n] = OutAt(k).value)

\* the i-th smallest element of a set of numbers
Nth(S, i) == CHOOSE k \in S : Cardinality({j \in S : j < k}) = i - 1

\* the names of the #binding directives of the source, one per directive
BindingDirectives ==
    LET dirs == SelectSeq(run.tokens,
                          LAMBDA t : /\ t.type = "directive"
                                     /\ DirectiveMatch(t.value, 1).word
                                            = <<"b","i","n","d","i","n","g">>)
    IN [k \in 1..Len(dirs) |-> DirectiveMatch(dirs[k].value, 1).name]

\* the distinct #binding names in the order of their first appearance
BindingNames ==
    LET firsts == {k \in 1..Len(BindingDirectives) :
                      \A j \in 1..(k - 1) : BindingDirectives[j] # BindingDirectives[k]}
    IN [i \in 1..Cardinality(firsts) |-> BindingDirectives[Nth(firsts, i)]]

\* the i-th line of a text (lines end at "\n")
LineOf(text, i) ==
    LET ends == {p \in 1..Len(text) : text[p] = "\n"}
        from == IF i = 1 THEN 1 ELSE Nth(ends, i - 1) + 1
        to == IF i <= Cardinality(ends) THEN Nth(ends, i) - 1 ELSE Len(text)
    IN SubSeq(text, from, to)

LineCount(text) == Cardinality({p \in 1..Len(text) : text[p] = "\n"}) + 1

BindingMark == <<"/","/","#","!","b","i","n","d","i","n","g"," ">>

\* the occurrences of a name in the source that are neither a struct field
\* declaration nor a member access
TopLevel(name) ==
    {k \in Occurrences(name) : ~FieldDeclaration(k) /\ ~MemberAccess(k)}

\* C13: the output starts with one line "//#!binding <original> <generated>"
\* per distinct #binding name, in the order of first appearance, the
\* generated name being the one that stands for every top-level occurrence
\* of the original in the body; no further such line follows.
C13_BindingCommentsTellTheMapping ==
    Obfuscated =>
        /\ LineCount(run.out) >= Len(BindingNames) + 1 \/ BindingNames = <<>>
        /\ \A k \in 1..Len(BindingNames) :
               \E n \in 1..Len(run.names) :
                   /\ LineOf(run.out, k)
                          = BindingMark \o BindingNames[k] \o <<" ">> \o run.names[n]
                   /\ \A j \in TopLevel(BindingNames[k]) :
                          OutAt(j).value = run.names[n]
        /\ ~StartsWith(LineOf(run.out, Len(BindingNames) + 1), BindingMark)

\* two #binding names, each used in the body
C13_Witness ==
    /\ Obfuscated
    /\ Len(BindingNames) = 2
    /\ \A k \in 1..2 : TopLevel(BindingNames[k]) # {}
    /\ LineCount(run.out) = 3

\* "_" and the base-36 digit of n, for n < 36
SingleDigitName(n) ==
    <<"_", <<"0","1","2","3","4","5","6","7","8","9","a","b","c","d","e","f","g",
             "h","i","j","k","l","m","n","o","p","q","r","s","t","u","v","w","x",
             "y","z">>[n + 1]>>

\* C14: the names handed out during one obfuscate run are _0, _1, _2, ...
\* in base 36, in this order, without gap or repeat, and the counter at the
\* end of the run is their number: the run resets the counter before its
\* first request and no other call touches it until the run ends.
C14_RunOwnsTheCounter ==
    run.fn = "obfuscate" =>
        /\ \A k \in 1..Len(run.names) : run.names[k] = SingleDigitName(k - 1)
        /\ index = Len(run.names)

\* a run that handed out more than ten names (so "_a" is one of them) and
\* that started when earlier calls had left the counter above 0
C14_Witness ==
    /\ run.fn = "obfuscate"
    /\ run.before > 0
    /\ Len(run.names) > 10
    /\ run.names[11] = <<"_", "a">>

\* C15: a call of obfuscate on the text of the first call returns what the
\* first call returned (or throws as it threw), whatever calls of obfuscate,
\* nextName, collectStructNames and collectDeclaredIdentifiersAndEntryPoints
\* were made between the two.
C15_SameInputSameOutput ==
    (run.fn = "obfuscate" /\ first.set /\ run.code = first.code) =>
        (run.out = first.out /\ run.threw = first.threw)

\* obfuscate is called again on the text of the first call, after other
\* calls that left the counter above 0, and hands out names
C15_Witness ==
    /\ run.fn = "obfuscate"
    /\ first.set
    /\ first.between
    /\ run.code = first.code
    /\ run.before > 0
    /\ Len(run.names) > 1

\* white space of a source text
Blank == {" ", "\t", "\n", "\r"}

\* The position reached when the tokens are laid over the text in order,
\* from its start, with nothing but white space before each: 0 if a token
\* is empty or its text is not what stands there
LaidOver(text, tokens) ==
    Iterate(LAMBDA pos, k :
                IF pos = 0 \/ tokens[k].value = <<>> THEN 0
                ELSE IF MatchAt(text, tokens[k].value, pos + Span(text, pos, Blank, TRUE))
                    THEN pos + Span(text, pos, Blank, TRUE) + Len(tokens[k].value)
                ELSE 0,
            1, 1, Len(tokens))

\* C18: tokenizeWgsl ends; if it returns, its tokens laid over the input in
\* order leave nothing but white space between and after them, and none is
\* of the type unknown (comments are tokens of the type comment); if it
\* throws, the tokens before the offending character cover the input up to
\* it in the same way, no pattern matches at it, and nothing is returned.
C18_TokensCoverTheInput ==
    call.fn = "tokenizeWgsl" =>
        LET tokens == call.out.tokens
            before == SubSeq(tokens, 1, Len(tokens) - 1)
            at == call.out.index - 1
        IN /\ ~call.out.pending
           /\ ~call.out.threw =>
                  /\ LaidOver(line, tokens) > 0
                  /\ LaidOver(line, tokens)
                         + Span(line, LaidOver(line, tokens), Blank, TRUE)
                     = Len(line) + 1
                  /\ \A k \in 1..Len(tokens) : tokens[k].type # "unknown"
           /\ call.out.threw =>
                  /\ at \in 1..Len(line)
                  /\ LaidOver(line, before) > 0
                  /\ LaidOver(line, before)
                         + Span(line, LaidOver(line, before), Blank, TRUE) = at
                  /\ \A k \in 1..Len(before) : before[k].type # "unknown"
                  /\ line[at] \notin Blank
                  /\ CommentLen(line, at) = 0 /\ DirectiveMatch(line, at).len = 0
                  /\ AttributeLen(line, at) = 0 /\ StringLen(line, at) = 0
                  /\ NumberLen(line, at) = 0 /\ IdentLenAt(line, at) = 0
                  /\ OperatorLen(line, at) = 0

\* a comment is made a token and the character after it, which no pattern
\* matches, makes tokenizeWgsl throw
C18_Witness ==
    /\ call.fn = "tokenizeWgsl"
    /\ call.out.threw
    /\ Len(call.out.tokens) = 2
    /\ call.out.tokens[1].type = "comment"
    /\ call.out.tokens[2].type = "unknown"

(***************************************************************************)
(* Properties of the macro expansion and of the #define handler            *)
(***************************************************************************)
\* the body with every occurrence of a parameter replaced by the argument
\* of that parameter, in one scan of the body: text put in is not looked at
\* again
EachParameterOnce(body, params, args) ==
    LET ParamAt(i) == {j \in 1..Len(params) : WordAt(body, params[j], i)}
    IN ReplaceScan(body,
                   LAMBDA i : IF ParamAt(i) = {} THEN 0
                              ELSE Len(params[Min(ParamAt(i))]),
                   LAMBDA i, n : args[Min(ParamAt(i))]).out

\* the arguments of the invocations drawn
ArgumentTexts == { <<"1">>, <<"2">>, <<"b">> }

\* C21: the invocation F(x, y) of a function-like macro of two parameters
\* yields the body with each parameter occurrence replaced by the text of
\* its argument, and the argument text put in is not rewritten by the
\* substitution of the other parameter (F(a, b) defined as 'a + b':
\* F(b, 1) yields 'b + 1').
C21_ArgumentsSubstitutedOnce ==
    call.fn = "expandMacros" =>
        \A k \in 1..Len(defines) : \A x, y \in ArgumentTexts : \A sep \in {<<",">>, <<","," ">>} :
            (/\ defines[k].fn
             /\ Len(defines[k].params) = 2
             /\ line = defines[k].name \o <<"(">> \o x \o sep \o y \o <<")">>)
                => /\ call.out.err.kind = "none"
                   /\ call.out.text
                          = EachParameterOnce(defines[k].value, defines[k].params,
                                              <<x, y>>)

\* the expression with every comparison of two names that TokenEqual holds
\* of replaced by 1, in one scan from the left
EveryEqualityRewritten(expr, table) ==
    LET Holds(i) == TokenEqual(EqualityAt(expr, i).left, EqualityAt(expr, i).right,
                               table)
    IN ReplaceScan(expr,
                   LAMBDA i : IF EqualityAt(expr, i).len > 0 /\ Holds(i)
                              THEN EqualityAt(expr, i).len ELSE 0,
                   LAMBDA i, n : <<"1">>).out

\* C22: evaluateExpression decides an expression as it decides the
\* expression in which every comparison A == B is replaced by 1 where one
\* side is an object-like macro whose value is the other name, that name
\* undefined, or both sides are object-like macros of equal values: the
\* first such comparison and every later one, in either operand order.
C22_EveryComparisonTrue ==
    (/\ call.fn = "evaluateExpression"
     /\ EveryEqualityRewritten(line, defines) # line)
        => call.out = EvaluateExpression(EveryEqualityRewritten(line, defines), defines)

\* processConditionals was called with the one line, a #define that names
\* a macro, and returned
Defined ==
    /\ call.fn = "processConditionals"
    /\ LineKind(line) = "define"
    /\ MacroNameMatch(DirectiveLine(line)) # <<>>
    /\ call.out.err.kind = "none"

\* the macro that the #define line names, as the table holds it after the call
Stored == Get(call.out.defines, MacroNameMatch(DirectiveLine(line)))

\* the position after the macro name in the #define line
AfterName ==
    MatchWs(DirectiveLine(line), KwDefine) + 1
        + Len(MacroNameMatch(DirectiveLine(line)))

\* C23: after a #define, of an object-like or of a function-like macro, the
\* table holds for the name the right-hand side with the macros of the
\* table at that moment expanded.
C23_ValueExpandedAtDefinition ==
    Defined =>
        /\ Has(call.out.defines, MacroNameMatch(DirectiveLine(line)))
        /\ Stored.value
               = ExpandMacros(IF FunctionLikeMatch(DirectiveLine(line)).ok
                              THEN FunctionLikeMatch(DirectiveLine(line)).value
                              ELSE DefineText(DirectiveLine(line)),
                              defines).text

\* C24: #define registers a function-like macro only when "(" stands right
\* after the macro name; with white space between the name and "(" the macro
\* registered is object-like and its value is the expansion of the text
\* that starts at "(".
C24_FunctionLikeNeedsAdjacentParenthesis ==
    Defined =>
        /\ Has(call.out.defines, MacroNameMatch(DirectiveLine(line)))
        /\ Stored.fn => MatchAt(DirectiveLine(line), <<"(">>, AfterName)
        /\ (/\ ~MatchAt(DirectiveLine(line), <<"(">>, AfterName)
            /\ MatchAt(DefineText(DirectiveLine(line)), <<"(">>, 1))
               => /\ ~Stored.fn
                  /\ Stored.value
                         = ExpandMacros(DefineText(DirectiveLine(line)), defines).text

\* C26: '#define N V' of an object-like macro, for every legal name N,
\* stores as the value of N the text V, trimmed, without the trailing
\* comment and with its macros expanded.
C26_ObjectValueIsTheTextAfterTheName ==
    (Defined /\ ~FunctionLikeMatch(DirectiveLine(line)).ok) =>
        /\ Has(call.out.defines, MacroNameMatch(DirectiveLine(line)))
        /\ ~Stored.fn
        /\ Stored.value = ExpandMacros(DefineText(DirectiveLine(line)), defines).text

\* the text starts, after its leading white space, with one of the eight
\* directive keywords as a whole word
StartsWithDirectiveKeyword(text) ==
    \E kw \in {KwDefine, KwUndef, KwIf, KwIfdef, KwIfndef, KwElif, KwElse, KwEndif} :
        /\ StartsWith(Trim(text), kw)
        /\ ~IsWordAt(Trim(text), Len(kw) + 1)

\* C28: no line that processConditionals returns starts with one of the
\* directive keywords #define, #undef, #if, #ifdef, #ifndef, #elif, #else,
\* #endif: such an input line is taken by the handler of that directive.
C28_NoDirectiveInOutput ==
    (call.fn = "processConditionals" /\ call.out.err.kind = "none") =>
        \A k \in 1..Len(call.out.lines) :
            ~StartsWithDirectiveKeyword(call.out.lines[k])

\* the name stands at position i of the text as a part of a longer
\* identifier: the run of letters, digits and underscores around it starts
\* with a letter or an underscore and is longer than the name
PartOfIdentifier(text, name, i) ==
    LET b == Max({p \in 1..i : p = 1 \/ text[p - 1] \notin WordChar})
    IN /\ MatchAt(text, name, i)
       /\ text[b] \in IdentStart
       /\ WordEnd(text, b) - b + 1 > Len(name)
       /\ WordEnd(text, b) >= i + Len(name) - 1

\* the names of the table are object-like macros, some name occurs in the
\* text, and every occurrence is a part of a longer identifier
OnlyInsideIdentifiers(text, table) ==
    /\ \A k \in 1..Len(table) : ~table[k].fn
    /\ \E k \in 1..Len(table) : IndexOf(text, table[k].name) > 0
    /\ \A k \in 1..Len(table) : \A i \in 1..Len(text) :
           MatchAt(text, table[k].name, i) => PartOfIdentifier(text, table[k].name, i)

\* C25: an occurrence of an object-like macro's name that is a part of a
\* longer identifier (A in Apples, in _A1 or in v2A) is not replaced: a
\* text in which the names occur only so is returned as it is.
C25_OnlyCompleteIdentifiersReplaced ==
    (call.fn = "expandMacros" /\ OnlyInsideIdentifiers(line, defines)) =>
        (call.out.err.kind = "none" /\ call.out.text = line)

\* the macros of the table are object-like and the value of each is either
\* one string literal or a text without quotes and without macro names
LiteralOrPlainValues(table) ==
    \A k \in 1..Len(table) :
        /\ ~table[k].fn
        /\ \/ /\ Len(table[k].value) >= 2
              /\ table[k].value[1] = "\""
              /\ table[k].value[Len(table[k].value)] = "\""
              /\ \A p \in 2..(Len(table[k].value) - 1) :
                     table[k].value[p] \notin {"\"", "'", "\\"}
           \/ /\ \A p \in 1..Len(table[k].value) : table[k].value[p] \notin {"\"", "'"}
              /\ \A j \in 1..Len(table) : IndexOf(table[k].value, table[j].name) = 0

\* position i of the text is inside a quoted literal
InsideLiteral(text, i) ==
    Iterate(LAMBDA st, p : LiteralStep(st, text[p]), [q |-> "", out |-> <<>>],
            1, i - 1).q # ""

\* the text with every macro name that stands outside the literals as a
\* complete identifier replaced by the macro's value, once
ReplacedOutsideLiterals(text, table) ==
    LET NameAt(i) == {k \in 1..Len(table) :
                         ~InsideLiteral(text, i) /\ WordAt(text, table[k].name, i)}
    IN ReplaceScan(text,
                   LAMBDA i : IF NameAt(i) = {} THEN 0
                              ELSE Len(table[Min(NameAt(i))].name),
                   LAMBDA i, n : table[Min(NameAt(i))].value).out

\* C27: expandMacros substitutes no macro name inside a string literal of
\* the text it produces: the literals of the result are the literals of
\* the line and the literals that macro values bring in, as they were
\* written.
C27_LiteralsOfTheResultUntouched ==
    (/\ call.fn = "expandMacros"
     /\ defines # <<>>
     /\ LiteralOrPlainValues(defines))
        => /\ call.out.err.kind = "none"
           /\ ProtectStrings(call.out.text).lits
                  = ProtectStrings(ReplacedOutsideLiterals(line, defines)).lits

\* the tokens of the source that have a token in the output: the directives
\* have none
SourceTokens == SelectSeq(run.tokens, LAMBDA t : t.type # "directive")

\* C29: within one run of obfuscate two different identifier names of the
\* source never appear as the same name in the output, whether renamed or
\* left as they are, and the names generated in the run are pairwise
\* distinct over the identifier map and the struct-member map.
C29_RenamingInjective ==
    Obfuscated =>
        /\ Len(run.obfuscatedTokens) = Len(SourceTokens)
        /\ \A j, k \in 1..Len(SourceTokens) :
               (/\ SourceTokens[j].type = "identifier"
                /\ SourceTokens[k].type = "identifier"
                /\ SourceTokens[j].value # SourceTokens[k].value)
                   => run.obfuscatedTokens[j].value # run.obfuscatedTokens[k].value
        /\ \A j, k \in 1..Len(run.names) :
               j # k => run.names[j] # run.names[k]

\* C30: tokenizing the text that reconstructObfuscatedCode makes of the
\* obfuscated tokens gives these tokens back: as many, of the same types
\* and texts.
C30_ReconstructedTextTokenizesBack ==
    Obfuscated =>
        LET again == TokenizeWgsl(ReconstructObfuscatedCode(run.obfuscatedTokens,
                                                            run.tokens))
        IN /\ ~again.threw
           /\ again.tokens = run.obfuscatedTokens

=============================================================================
